---- MODULE Spec2Model ----
(***************************************************************************)
(* Order path of the StuckAI trading API: the risk gate                    *)
(* (trading_api.check_risk_limit), the broker order call                   *)
(* (kis_broker.KISBroker.place_cash_order), the order log (TradeOrder      *)
(* rows) and the three entry points that place orders: POST /orders/market *)
(* (place_market_order), POST /trade/buy and /trade/sell                   *)
(* (_place_market_order_internal) and auto_trader.run_hourly_trading.      *)
(*                                                                         *)
(* Conventions.  Won amounts and quantities are integers; the floats of    *)
(* the code hold integer values in every input used here, and the          *)
(* tolerances 1e-6 (daily cap) and 1e-9 (weight cap) of the comparisons    *)
(* never decide between integers this small.  max_weight_pct is kept in    *)
(* percent (0.5 is 50).  A nullable column or an optional JSON field is a  *)
(* set: {} is None / missing, {v} is the value v.  The average cost        *)
(* eval/held is kept as an exact fraction.                                 *)
(***************************************************************************)
EXTENDS Integers, Sequences, FiniteSets, TLC

VARIABLES
    settings,   \* risk_settings table: a set of RiskSetting rows, stock_code unique
    orders,     \* trade_orders table: the sequence of TradeOrder rows, in insertion order
    held,       \* broker side: shares held per instrument
    cash,       \* broker side: deposit (dnca_tot_amt)
    fills,      \* broker side: the orders the broker has accepted, in order
    last,       \* what the last handled request did and what its caller received
    nreq,       \* number of requests handled so far
    threads,    \* concurrent /orders/market requests: each one's position and locals
    env,        \* the SingleStockTradingEnv object: its config, data and fields
    out,        \* what the last call on the environment or a read-only call returned
    snapshots,  \* account_snapshots table: the rows in created_at order
    bars,       \* the bar DataFrame handed to TechnicalIndicators, oldest bar first
    auto_runs,  \* auto_trade_runs table: the sequence of AutoTradeRun rows
    proc        \* the auto_trader.py subprocess an API handler is blocked on

vars == <<settings, orders, held, cash, fills, last, nreq, threads, env, out,
          snapshots, bars, auto_runs, proc>>

\* The state only the reporting, indicator and strategy-run handlers touch.
aux == <<snapshots, bars, auto_runs, proc>>

(***************************************************************************)
(* Optional values.                                                        *)
(***************************************************************************)
None == {}
Some(v) == {v}
IsNone(x) == x = {}
Val(x) == CHOOSE v \in x : TRUE
\* Python's `x or d` on a nullable float column: None and 0.0 both give d.
OrElse(x, d) == IF IsNone(x) \/ Val(x) = 0 THEN d ELSE Val(x)
\* Python's `h.get(k) or d` on a JSON field, which KIS sends as a string of
\* digits: a missing or empty field gives d, and "0" is a true value.
StrOr(x, d) == IF IsNone(x) THEN d ELSE Val(x)
Max(a, b) == IF a >= b THEN a ELSE b
Abs(x) == IF x < 0 THEN -x ELSE x
Min(a, b) == IF a <= b THEN a ELSE b

\* seq[i] of Python on a sequence of length n: None stands for IndexError.
PyIndex(seq, i) ==
    IF 0 <= i /\ i < Len(seq) THEN Some(seq[i + 1])
    ELSE IF i < 0 /\ -Len(seq) <= i THEN Some(seq[Len(seq) + i + 1])
    ELSE None

\* seq[start:end] of Python.
PySlice(seq, start, end) ==
    LET norm(i) == IF i < 0 THEN Max(i + Len(seq), 0) ELSE Min(i, Len(seq))
    IN  SubSeq(seq, norm(start) + 1, norm(end))

(***************************************************************************)
(* Instrument codes and their collation.                                   *)
(***************************************************************************)
ALL == "ALL"
\* Instruments of the model: two numeric KRX codes of auto_trader.STOCKS and
\* one code that starts with a letter (an ETN short code).
Stocks == <<"005930", "035420">>
NumericCodes == {Stocks[i] : i \in 1..Len(Stocks)}
LetterCodes == {"Q530031"}
Codes == NumericCodes \cup LetterCodes

\* String comparison as ORDER BY stock_code does it: character by character
\* on the code points; the first characters already differ for every pair the
\* query compares (an instrument code against "ALL"): '0' is 48, 'A' is 65,
\* 'Q' is 81.
FirstCodePoint(s) ==
    CASE s \in NumericCodes -> 48
      [] s = ALL -> 65
      [] s \in LetterCodes -> 81

StrGreater(a, b) == FirstCodePoint(a) > FirstCodePoint(b)

(***************************************************************************)
(* Risk limits: process defaults and the risk_settings lookup.             *)
(***************************************************************************)
DEFAULT_MAX_POSITION_SHARES == 10
DEFAULT_MAX_WEIGHT_PCT == 50
\* (weights are kept in percent: the source's fraction 0.5 is 50 here, and a
\* row's max_weight_pct p stands for the stored fraction p/100)
DEFAULT_MAX_DAILY_BUY_AMOUNT == 0

\* session.query(RiskSetting).filter(active).filter(stock_code IN (code, "ALL"))
\*        .order_by(RiskSetting.stock_code.desc()).first()
QueryRiskSetting(table, stock_code) ==
    LET cand == {r \in table : r.active /\ r.stock_code \in {stock_code, ALL}}
    IN  IF cand = {} THEN None
        ELSE Some(CHOOSE r \in cand :
                    \A o \in cand \ {r} : StrGreater(r.stock_code, o.stock_code))

\* The three limits after the per-field override of the defaults.
ResolveLimits(table, stock_code) ==
    LET setting == QueryRiskSetting(table, stock_code)
        row == Val(setting)
    IN  IF IsNone(setting)
        THEN [max_shares |-> DEFAULT_MAX_POSITION_SHARES,
              max_weight_pct |-> DEFAULT_MAX_WEIGHT_PCT,
              max_daily_buy_amount |-> DEFAULT_MAX_DAILY_BUY_AMOUNT]
        ELSE [max_shares |->
                  IF IsNone(row.max_position_shares) THEN DEFAULT_MAX_POSITION_SHARES
                  ELSE Val(row.max_position_shares),
              max_weight_pct |->
                  IF IsNone(row.max_weight_pct) THEN DEFAULT_MAX_WEIGHT_PCT
                  ELSE Val(row.max_weight_pct),
              max_daily_buy_amount |->
                  IF IsNone(row.max_daily_buy_amount) THEN DEFAULT_MAX_DAILY_BUY_AMOUNT
                  ELSE Val(row.max_daily_buy_amount)]

(***************************************************************************)
(* The scan of the balance snapshot: output1 is the list of holdings rows  *)
(* {pdno, hldg_qty, ord_psbl_qty, evlu_amt, prpr}, output2[0] the summary. *)
(***************************************************************************)
ScanStart ==
    [total_eval |-> 0, current_qty |-> 0, sellable |-> 0, current_eval |-> 0,
     current_price |-> None]

RECURSIVE ScanHoldings(_, _, _)
ScanHoldings(holdings, stock_code, acc) ==
    IF holdings = <<>> THEN acc
    ELSE LET h == Head(holdings)
             ev == StrOr(h.evlu_amt, 0)
             tot == acc.total_eval + ev
         IN  ScanHoldings(Tail(holdings), stock_code,
                 IF h.pdno = stock_code
                 THEN [total_eval |-> tot,
                       current_qty |-> StrOr(h.hldg_qty, 0),
                       sellable |-> StrOr(h.ord_psbl_qty, 0),
                       current_eval |-> ev,
                       current_price |-> Some(StrOr(h.prpr, 0))]
                 ELSE [acc EXCEPT !.total_eval = tot])

\* cash_raw = summary.get("dnca_tot_amt") or summary.get("nass_amt") or 0
CashOf(b) ==
    IF b.output2 = <<>> THEN 0
    ELSE LET summary == Head(b.output2)
         IN  IF ~IsNone(summary.dnca_tot_amt) THEN Val(summary.dnca_tot_amt)
             ELSE StrOr(summary.nass_amt, 0)

\* Sum of order_amount over today's BUY rows with status OK (every instrument).
RECURSIVE SpentToday(_)
SpentToday(log) ==
    IF log = <<>> THEN 0
    ELSE LET o == Head(log)
         IN  (IF o.created_today /\ o.side = "BUY" /\ o.status = "OK"
              THEN OrElse(o.order_amount, 0) ELSE 0)
             + SpentToday(Tail(log))

(***************************************************************************)
(* check_risk_limit.  The result is PASS or the HTTP 400 rejection with    *)
(* what its detail cites: the limit and the current figure.                *)
(***************************************************************************)
Pass == [outcome |-> "PASS", reason |-> "none", limit |-> 0, current |-> 0]
Reject(reason, limit, current) ==
    [outcome |-> "REJECT", reason |-> reason, limit |-> limit, current |-> current]

\* The daily-amount check of a BUY: TRUE when it raises.
DailyCapRaises(lim, scan, log, quantity) ==
    LET est_price == OrElse(scan.current_price, 0)
        est_amount == IF est_price > 0 THEN est_price * quantity ELSE 0
    IN  /\ lim.max_daily_buy_amount > 0
        /\ est_amount > 0
        /\ SpentToday(log) + est_amount > lim.max_daily_buy_amount

\* Faulty variant: only the quantity already held is held against the cap.
PositionCapRaises_HeldOnly(lim, scan, quantity) ==
    scan.current_qty > lim.max_shares

\* Faulty variant: the cap itself is already refused.
PositionCapRaises_AtCap(lim, scan, quantity) ==
    scan.current_qty + quantity >= lim.max_shares

\* The share-count check of a BUY: TRUE when it raises.
PositionCapRaises(lim, scan, quantity) ==
    scan.current_qty + quantity > lim.max_shares

\* Faulty variant: no fallback to the average cost when the row has no quote.
WeightPrice_QuoteOnly(scan) ==
    IF IsNone(scan.current_price) THEN None
    ELSE Some([n |-> Val(scan.current_price), d |-> 1])

\* The price the weight check uses, as a fraction n/d: the quote of the
\* holdings row, else eval/max(held, 1) when shares are held; None when no
\* row gave a quote and nothing is held.
WeightPrice(scan) ==
    IF (IsNone(scan.current_price) \/ Val(scan.current_price) <= 0)
       /\ scan.current_qty > 0
    THEN Some([n |-> scan.current_eval, d |-> Max(scan.current_qty, 1)])
    ELSE IF IsNone(scan.current_price) THEN None
         ELSE Some([n |-> Val(scan.current_price), d |-> 1])

\* Projected stock value and total value, both times the denominator d.
ProjectedStock(scan, p, quantity) == scan.current_eval * p.d + p.n * quantity
ProjectedTotal(scan, total_value, p, quantity) ==
    (total_value - scan.current_eval) * p.d + ProjectedStock(scan, p, quantity)

\* The weight check of a BUY: TRUE when it raises.  The code computes the
\* weight only when the projected total is positive and compares it in any
\* case; with total_value > 0, a positive price and a positive quantity the
\* projected total is positive, so the comparison never reads an unset weight.
WeightCapRaises(lim, scan, total_value, quantity) ==
    LET wp == WeightPrice(scan)
        p == Val(wp)
    IN  /\ total_value > 0
        /\ ~IsNone(wp)
        /\ p.n > 0
        /\ ProjectedTotal(scan, total_value, p, quantity) > 0
        /\ 100 * ProjectedStock(scan, p, quantity)
               > lim.max_weight_pct * ProjectedTotal(scan, total_value, p, quantity)

WeightPercent(scan, total_value, quantity) ==
    LET p == Val(WeightPrice(scan))
    IN  (100 * ProjectedStock(scan, p, quantity))
            \div ProjectedTotal(scan, total_value, p, quantity)

\* Faulty variant: the share-count check runs before the daily-amount check.
check_risk_limit_PositionFirst(b, table, log, stock_code, side, quantity) ==
    LET lim == ResolveLimits(table, stock_code)
        scan == ScanHoldings(b.output1, stock_code, ScanStart)
        total_value == scan.total_eval + CashOf(b)
    IN  IF side = "BUY"
        THEN IF PositionCapRaises(lim, scan, quantity)
             THEN Reject("position", lim.max_shares, scan.current_qty)
             ELSE IF DailyCapRaises(lim, scan, log, quantity)
             THEN Reject("daily", lim.max_daily_buy_amount,
                         Max(0, lim.max_daily_buy_amount - SpentToday(log)))
             ELSE IF WeightCapRaises(lim, scan, total_value, quantity)
             THEN Reject("weight", lim.max_weight_pct,
                         WeightPercent(scan, total_value, quantity))
             ELSE Pass
        ELSE IF quantity > scan.sellable
             THEN Reject("sellable", scan.sellable, scan.sellable)
             ELSE Pass

\* Faulty variant: a SELL is checked against the shares held, not the sellable ones.
check_risk_limit_SellByHeld(b, table, log, stock_code, side, quantity) ==
    LET lim == ResolveLimits(table, stock_code)
        scan == ScanHoldings(b.output1, stock_code, ScanStart)
        total_value == scan.total_eval + CashOf(b)
    IN  IF side = "BUY"
        THEN IF DailyCapRaises(lim, scan, log, quantity)
             THEN Reject("daily", lim.max_daily_buy_amount,
                         Max(0, lim.max_daily_buy_amount - SpentToday(log)))
             ELSE IF PositionCapRaises(lim, scan, quantity)
             THEN Reject("position", lim.max_shares, scan.current_qty)
             ELSE IF WeightCapRaises(lim, scan, total_value, quantity)
             THEN Reject("weight", lim.max_weight_pct,
                         WeightPercent(scan, total_value, quantity))
             ELSE Pass
        ELSE IF quantity > scan.current_qty
             THEN Reject("sellable", scan.sellable, scan.sellable)
             ELSE Pass

check_risk_limit(b, table, log, stock_code, side, quantity) ==
    LET lim == ResolveLimits(table, stock_code)
        scan == ScanHoldings(b.output1, stock_code, ScanStart)
        total_value == scan.total_eval + CashOf(b)
    IN  IF side = "BUY"
        THEN IF DailyCapRaises(lim, scan, log, quantity)
             THEN Reject("daily", lim.max_daily_buy_amount,
                         Max(0, lim.max_daily_buy_amount - SpentToday(log)))
             ELSE IF PositionCapRaises(lim, scan, quantity)
             THEN Reject("position", lim.max_shares, scan.current_qty)
             ELSE IF WeightCapRaises(lim, scan, total_value, quantity)
             THEN Reject("weight", lim.max_weight_pct,
                         WeightPercent(scan, total_value, quantity))
             ELSE Pass
        ELSE IF quantity > scan.sellable
             THEN Reject("sellable", scan.sellable, scan.sellable)
             ELSE Pass

(***************************************************************************)
(* The broker.  get_balance reports the account; an order is answered by   *)
(* a reply {status_code, rt_cd, output}, or not at all (transport failure).*)
(***************************************************************************)
\* Last traded price per instrument (won, scaled down).
Price == [c \in Codes |-> CASE c = "005930" -> 60 [] c = "035420" -> 50 [] OTHER -> 40]

\* Holdings rows of the account: one row per instrument held, in the order
\* of Stocks, every share sellable, evaluated at the last price.
RECURSIVE HoldingRows(_, _)
HoldingRows(h, i) ==
    IF i > Len(Stocks) THEN <<>>
    ELSE LET c == Stocks[i]
         IN  (IF h[c] > 0
              THEN <<[pdno |-> c, hldg_qty |-> Some(h[c]), ord_psbl_qty |-> Some(h[c]),
                      evlu_amt |-> Some(h[c] * Price[c]), prpr |-> Some(Price[c])]>>
              ELSE <<>>)
             \o HoldingRows(h, i + 1)

GetBalance(h, c) ==
    [output1 |-> HoldingRows(h, 1),
     output2 |-> <<[dnca_tot_amt |-> Some(c), nass_amt |-> None]>>]

NoBalance == [output1 |-> <<>>, output2 |-> <<>>]

\* The replies the order endpoint can give to an order of `quantity` shares.
\* An accepted order is answered 200 with rt_cd "0" (or none) and an output
\* that may or may not carry ORD_UNPR / ORD_QTY; a refused one by a non-200
\* status or a non-zero rt_cd.
AcceptReplies(stock_code, quantity) ==
    { [transport_ok |-> TRUE, status_code |-> 200, rt_cd |-> Some("0"), output |-> o] :
        o \in { None,
                Some([ORD_UNPR |-> None, ORD_QTY |-> None]),
                Some([ORD_UNPR |-> Some(Price[stock_code]), ORD_QTY |-> Some(quantity)]) } }

RefuseReplies ==
    { [transport_ok |-> FALSE, status_code |-> 0, rt_cd |-> None, output |-> None],
      [transport_ok |-> TRUE, status_code |-> 500, rt_cd |-> None, output |-> None],
      [transport_ok |-> TRUE, status_code |-> 200, rt_cd |-> Some("1"), output |-> None] }

\* KISBroker.place_cash_order: TRUE when it raises instead of returning js.
place_cash_order_raises(reply) ==
    \/ ~reply.transport_ok
    \/ reply.status_code # 200
    \/ ~(IsNone(reply.rt_cd) \/ Val(reply.rt_cd) = "0")

(***************************************************************************)
(* The order log row written after a broker call that returned `res`       *)
(* (stock_name and raw_response, which no later step reads, are left out). *)
(***************************************************************************)
TradeOrderRow(res, stock_code, side, quantity) ==
    LET has_output == ~IsNone(res.output)
        output == Val(res.output)
        order_price == StrOr(output.ORD_UNPR, 0)
        qty == StrOr(output.ORD_QTY, quantity)
    IN  [created_today |-> TRUE,
         stock_code |-> stock_code,
         side |-> side,
         quantity |-> quantity,
         order_price |-> IF has_output THEN Some(order_price) ELSE None,
         order_amount |-> IF has_output THEN Some(order_price * qty) ELSE None,
         status |-> IF IsNone(res.rt_cd) \/ Val(res.rt_cd) = "0" THEN "OK" ELSE "ERROR"]

\* Where persisting the row can fail.
AuditFaults == {"none", "get_session", "add", "commit"}

\* The log after the audit block: the row is there only when add and commit
\* both went through (rollback on any exception inside the try).
AuditLog(log, row, fault) == IF fault = "none" THEN Append(log, row) ELSE log

\* TRUE when the audit block lets an exception out to the caller:
\* db.get_session() is called before the try.
AuditRaises(fault) == fault = "get_session"

(***************************************************************************)
(* Bounds of the model.                                                    *)
(***************************************************************************)
MaxRequests == 2      \* requests handled in one behaviour
MaxQty == 2           \* largest quantity of an order-path request
MaxGateQty == 3       \* largest quantity given to check_risk_limit on its own

\* Instrument codes that API requests of the order path name.
RequestCodes == {"005930"}

(***************************************************************************)
(* What a handler did, kept for the properties.                            *)
(***************************************************************************)
GateError == [outcome |-> "ERROR", reason |-> "none", limit |-> 0, current |-> 0]
NotRun == [outcome |-> "NOT_RUN", reason |-> "none", limit |-> 0, current |-> 0]

\* entry: the entry point; bal: the snapshot the gate read; gate: its result;
\* broker_called: the order call was made; accepted: it returned;
\* rows_added: TradeOrder rows written; http: status returned (0: none);
\* response: "broker_js" when the caller got the broker's answer;
\* spent_before (ghost): what BUYs of the instrument had really cost so far;
\* amount, close: the amount of a /trade/* request and the close it found;
\* skipped: why the auto-trader made no decision for the stock; csv, obs: the
\* feature file it read (None: no file) and the observation it built;
\* key_ok: FALSE when API_KEY is configured and the request's X-API-Key
\* header is missing or different.
Idle ==
    [entry |-> "none", stock_code |-> "none", side |-> "none", quantity |-> 0,
     bal |-> NoBalance, gate |-> NotRun, broker_called |-> FALSE, accepted |-> FALSE,
     audit_fault |-> "none", rows_added |-> 0, http |-> 0, response |-> "none",
     spent_before |-> 0, amount |-> 0, close |-> None,
     skipped |-> "none", csv |-> None, obs |-> None, key_ok |-> TRUE]

\* No trading environment has been constructed, none has been called.
NoEnv == [constructed |-> FALSE]
NoOut == [op |-> "none"]

\* No strategy run has been started through the API.
NoProc ==
    [pc |-> "none", entry |-> "none", key_ok |-> TRUE, next |-> 1,
     timed_out |-> FALSE, returncode |-> None, http |-> 0, fault |-> "none",
     fills_at_start |-> 0, fills_at_end |-> 0, runs_at_start |-> 0]

\* Ghost: what the broker has really been paid today for BUYs of one instrument.
RECURSIVE ActualSpent(_, _)
ActualSpent(fs, stock_code) ==
    IF fs = <<>> THEN 0
    ELSE LET f == Head(fs)
         IN  (IF f.side = "BUY" /\ f.stock_code = stock_code
              THEN f.price * f.quantity ELSE 0)
             + ActualSpent(Tail(fs), stock_code)

\* The broker fills an order it accepts; it accepts a BUY only with the cash
\* for it and a SELL only of shares held.
CanFill(stock_code, side, quantity) ==
    IF side = "BUY" THEN cash >= Price[stock_code] * quantity
    ELSE held[stock_code] >= quantity

Replies(stock_code, side, quantity) ==
    RefuseReplies \cup
        (IF CanFill(stock_code, side, quantity)
         THEN AcceptReplies(stock_code, quantity) ELSE {})

Filled(stock_code, side, quantity) ==
    /\ fills' = Append(fills, [stock_code |-> stock_code, side |-> side,
                               quantity |-> quantity, price |-> Price[stock_code]])
    /\ held' = [held EXCEPT ![stock_code] =
                    IF side = "BUY" THEN @ + quantity ELSE @ - quantity]
    /\ cash' = IF side = "BUY" THEN cash - Price[stock_code] * quantity
               ELSE cash + Price[stock_code] * quantity

\* str.upper() on the sides a request can carry.
Upper(side) == CASE side = "buy" -> "BUY" [] side = "sell" -> "SELL" [] OTHER -> side
RequestSides == {"BUY", "SELL", "buy", "HOLD"}

(***************************************************************************)
(* The body shared by place_market_order and _place_market_order_internal: *)
(* side validation, risk gate, broker call, audit, response.               *)
(***************************************************************************)
\* The broker call and what follows it, once the gate has passed.
SubmitAndAudit(base, stock_code, side_up, quantity) ==
    \E reply \in Replies(stock_code, side_up, quantity) :
        IF place_cash_order_raises(reply)
        THEN \* "KIS 주문 실패": HTTP 500, raised before the audit block
             /\ last' = [base EXCEPT !.broker_called = TRUE, !.http = 500,
                                     !.response = "error"]
             /\ UNCHANGED <<orders, held, cash, fills>>
        ELSE \E fault \in AuditFaults :
             /\ Filled(stock_code, side_up, quantity)
             /\ orders' = AuditLog(orders,
                                   TradeOrderRow(reply, stock_code, side_up, quantity),
                                   fault)
             /\ last' = [base EXCEPT !.broker_called = TRUE,
                                     !.accepted = TRUE, !.audit_fault = fault,
                                     !.rows_added = Len(orders') - Len(orders),
                                     !.http = IF AuditRaises(fault) THEN 500 ELSE 200,
                                     !.response = IF AuditRaises(fault) THEN "error"
                                                  ELSE "broker_js"]

\* Faulty variant: the rejection is not acted on (the handler goes on to the order).
GateCall_Ignored(balance_ok, stock_code, side_up, quantity) ==
    IF balance_ok THEN Pass ELSE GateError

\* check_risk_limit as a handler calls it: get_balance may fail before any check.
GateCall(balance_ok, stock_code, side_up, quantity) ==
    IF balance_ok
    THEN check_risk_limit(GetBalance(held, cash), settings, orders,
                          stock_code, side_up, quantity)
    ELSE GateError

OrderPath(asked, entry, stock_code, side, quantity) ==
    LET side_up == Upper(side)
        base == [asked EXCEPT !.entry = entry, !.stock_code = stock_code,
                             !.side = side_up, !.quantity = quantity,
                             !.spent_before = ActualSpent(fills, stock_code)]
    IN  IF side_up \notin {"BUY", "SELL"}
        THEN /\ last' = [base EXCEPT !.http = 400, !.response = "error"]
             /\ UNCHANGED <<orders, held, cash, fills>>
        ELSE \E balance_ok \in BOOLEAN :
             LET gate == GateCall(balance_ok, stock_code, side_up, quantity)
                 checked == [base EXCEPT
                                !.bal = IF balance_ok THEN GetBalance(held, cash)
                                        ELSE NoBalance,
                                !.gate = gate]
             IN  IF gate.outcome # "PASS"
                 THEN \* check_risk_limit raised: 400 for a limit, 500 for a failure
                      /\ last' = [checked EXCEPT
                                    !.http = IF gate.outcome = "REJECT" THEN 400 ELSE 500,
                                    !.response = "error"]
                      /\ UNCHANGED <<orders, held, cash, fills>>
                 ELSE SubmitAndAudit(checked, stock_code, side_up, quantity)

\* POST /orders/market
place_market_order ==
    /\ nreq < MaxRequests
    /\ nreq' = nreq + 1
    /\ UNCHANGED <<settings, threads, env, out, aux>>
    /\ \E stock_code \in RequestCodes, side \in RequestSides, quantity \in 1..MaxQty,
          key_ok \in BOOLEAN :
         IF ~key_ok
         THEN \* API_KEY is set and X-API-Key differs: 401
              /\ last' = [Idle EXCEPT !.entry = "orders_market", !.stock_code = stock_code,
                                      !.side = side, !.quantity = quantity, !.http = 401,
                                      !.response = "error", !.key_ok = FALSE]
              /\ UNCHANGED <<orders, held, cash, fills>>
         ELSE OrderPath(Idle, "orders_market", stock_code, side, quantity)

\* Faulty variant: a quantity of 0 is let through.
infer_quantity_from_amount_ZeroPasses(close, amount) ==
    IF IsNone(close) THEN None
    ELSE IF Val(close) <= 0 THEN None
    ELSE Some(amount \div Val(close))

\* _infer_quantity_from_amount: the latest StockPrice row's close, if any.
\* The result is the quantity, or None for the HTTP 400 it raises.  The
\* amount is positive (Field gt=0), so int() truncates as \div does.
infer_quantity_from_amount(close, amount) ==
    IF IsNone(close) THEN None
    ELSE IF Val(close) <= 0 THEN None
    ELSE IF amount \div Val(close) <= 0 THEN None
    ELSE Some(amount \div Val(close))

\* POST /trade/buy and POST /trade/sell: quantity from the amount, then
\* _place_market_order_internal.  The handlers take no X-API-Key header.
api_trade ==
    /\ nreq < MaxRequests
    /\ nreq' = nreq + 1
    /\ UNCHANGED <<settings, threads, env, out, aux>>
    /\ \E stock_code \in RequestCodes, side \in {"BUY", "SELL"},
          has_row \in BOOLEAN, close_ok \in BOOLEAN, n \in 0..MaxQty,
          key_ok \in BOOLEAN :
         LET close == IF ~has_row THEN None
                      ELSE IF close_ok THEN Some(Price[stock_code]) ELSE Some(0)
             amount == n * Price[stock_code] + (Price[stock_code] \div 2)
             qty == infer_quantity_from_amount(close, amount)
             asked == [Idle EXCEPT !.amount = amount, !.close = close,
                                   !.key_ok = key_ok]
         IN  IF IsNone(qty)
             THEN /\ last' = [asked EXCEPT !.entry = "trade", !.stock_code = stock_code,
                                           !.side = side, !.http = 400,
                                           !.response = "error"]
                  /\ UNCHANGED <<orders, held, cash, fills>>
             ELSE OrderPath(asked, "trade", stock_code, side, Val(qty))

\* decide_order_from_action, on the action in tenths.
decide_order_from_action(action10) ==
    IF action10 > 3 THEN "BUY" ELSE IF action10 < -3 THEN "SELL" ELSE "HOLD"

\* The rest of the pass once the policy has given its action: risk gate,
\* then the one-share order.
HourlyOrder(stock, stock_code, decision) ==
    LET quantity == 1
        base == [stock EXCEPT !.side = decision, !.quantity = quantity,
                              !.spent_before = ActualSpent(fills, stock_code)]
    IN  IF decision = "HOLD"
        THEN /\ last' = base
             /\ UNCHANGED <<held, cash, fills>>
        ELSE \E balance_ok \in BOOLEAN :
             LET gate == GateCall(balance_ok, stock_code, decision, quantity)
                 checked == [base EXCEPT
                                !.bal = IF balance_ok THEN GetBalance(held, cash)
                                        ELSE NoBalance,
                                !.gate = gate]
             IN  IF gate.outcome # "PASS"
                 THEN \* "리스크 한도 초과로 주문 스킵"
                      /\ last' = checked
                      /\ UNCHANGED <<held, cash, fills>>
                 ELSE \E reply \in Replies(stock_code, decision, quantity) :
                      IF place_cash_order_raises(reply)
                      THEN \* "주문 실패"
                           /\ last' = [checked EXCEPT !.broker_called = TRUE,
                                                      !.response = "error"]
                           /\ UNCHANGED <<held, cash, fills>>
                      ELSE /\ Filled(stock_code, decision, quantity)
                           /\ last' = [checked EXCEPT !.broker_called = TRUE,
                                                      !.accepted = TRUE,
                                                      !.response = "broker_js"]

\* The latest preprocessed CSV of a stock: rows of a datetime and one
\* feature column, in file order (not necessarily by date).
MaxCsvRows == 3       \* rows of a preprocessed CSV
HourlyWindow == 2     \* StockConfig.window_size of the auto-trader's stocks

CsvRow(d) == [datetime |-> d, feature |-> 50 + d]
CsvFiles ==
    { [i \in 1..n |-> CsvRow(i)] : n \in 0..MaxCsvRows }
    \cup { [i \in 1..MaxCsvRows |-> CsvRow(MaxCsvRows + 1 - i)] }

\* df.sort_values("datetime")
RECURSIVE SortByDatetime(_)
SortByDatetime(rows) ==
    IF rows = {} THEN <<>>
    ELSE LET first == CHOOSE r \in rows : \A q \in rows : r.datetime <= q.datetime
         IN  <<first>> \o SortByDatetime(rows \ {first})

\* Faulty variant: the rows are taken in file order.
build_latest_observation_Unsorted(csv, window_size) ==
    IF IsNone(csv) THEN None
    ELSE LET feats == [i \in 1..Len(Val(csv)) |-> <<Val(csv)[i].feature>>]
         IN  IF Len(feats) < window_size THEN None
             ELSE LET feats_win == PySlice(feats, -window_size, Len(feats))
                  IN  Some([r \in 1..window_size |-> feats_win[r] \o <<0, 0>>])

\* build_latest_observation: None stands for the exception it raises
\* (FileNotFoundError without a CSV, ValueError with too few rows).
build_latest_observation(csv, window_size) ==
    IF IsNone(csv) THEN None
    ELSE LET df == SortByDatetime({Val(csv)[i] : i \in 1..Len(Val(csv))})
             feats == [i \in 1..Len(df) |-> <<df[i].feature>>]
         IN  IF Len(feats) < window_size THEN None
             ELSE LET feats_win == PySlice(feats, -window_size, Len(feats))
                  IN  Some([r \in 1..window_size |-> feats_win[r] \o <<0, 0>>])

\* One pass of the loop of run_hourly_trading over STOCKS, for one stock:
\* model file, observation (any exception skips the stock), decision, risk
\* gate (any exception skips the stock), one-share order; no order log row
\* is written on this path.
HourlyPass(i, files, actions) ==
    \E model_found \in BOOLEAN :
         LET stock_code == Stocks[i]
             stock == [Idle EXCEPT !.entry = "hourly", !.stock_code = stock_code]
         IN  IF ~model_found
             THEN \* "모델 파일을 찾을 수 없습니다"
                  /\ last' = [stock EXCEPT !.skipped = "no_model"]
                  /\ UNCHANGED <<held, cash, fills>>
             ELSE \E csv \in files :
                  LET obs == build_latest_observation(csv, HourlyWindow)
                  IN  IF IsNone(obs)
                      THEN \* "관측값 생성 실패"
                           /\ last' = [stock EXCEPT !.skipped = "no_observation",
                                                    !.csv = csv]
                           /\ UNCHANGED <<held, cash, fills>>
                      ELSE \E action10 \in actions :
                           HourlyOrder([stock EXCEPT !.csv = csv, !.obs = obs],
                                       stock_code, decide_order_from_action(action10))

\* The routine as the scheduler runs it, one stock's pass at a time.
run_hourly_trading ==
    /\ nreq < MaxRequests
    /\ nreq' = nreq + 1
    /\ UNCHANGED <<settings, orders, threads, env, out, aux>>
    /\ \E i \in 1..Len(Stocks) :
         HourlyPass(i, {None} \cup {Some(f) : f \in CsvFiles}, {-10, -3, 3, 10})

(***************************************************************************)
(* The order path as a state machine.                                      *)
(***************************************************************************)
Row(code, shares, weight, daily, active) ==
    [stock_code |-> code, max_position_shares |-> shares, max_weight_pct |-> weight,
     max_daily_buy_amount |-> daily, active |-> active]

\* Settings tables the order path starts from.
PathSettings ==
    { {},
      {Row(ALL, None, Some(100), Some(100), TRUE)},
      {Row("005930", Some(2), None, None, TRUE), Row(ALL, Some(10), None, None, FALSE)} }

Init ==
    /\ settings \in PathSettings
    /\ orders = <<>>
    /\ held \in {[c \in NumericCodes |-> 0], [c \in NumericCodes |-> 1]}
    /\ cash = 1000
    /\ fills = <<>>
    /\ last = Idle
    /\ nreq = 0
    /\ threads = <<>>
    /\ env = NoEnv
    /\ out = NoOut
    /\ snapshots = <<>>
    /\ bars = <<>>
    /\ auto_runs = <<>>
    /\ proc = NoProc

Next ==
    \/ place_market_order
    \/ api_trade
    \/ run_hourly_trading

Spec == Init /\ [][Next]_vars

(***************************************************************************)
(* check_risk_limit on its own: the settings table and the order log are   *)
(* drawn at the start, the balance snapshot and the request at each call.  *)
(***************************************************************************)
GateCodes == {"005930", "Q530031"}

\* risk_settings tables: at most one row per stock_code (the column is unique).
GateSettings ==
    { a \cup b \cup c :
        a \in { {},
                {Row("005930", Some(10), None, None, TRUE)},
                {Row("005930", Some(2), Some(30), Some(100), TRUE)},
                {Row("005930", Some(2), Some(30), Some(100), FALSE)} },
        b \in { {},
                {Row(ALL, Some(4), Some(100), Some(150), TRUE)},
                {Row(ALL, Some(4), Some(100), Some(150), FALSE)} },
        c \in { {},
                {Row("Q530031", Some(1), None, None, TRUE)} } }

LogRow(today, code, side, amount, status) ==
    [created_today |-> today, stock_code |-> code, side |-> side, quantity |-> 1,
     order_price |-> amount, order_amount |-> amount, status |-> status]

\* trade_orders contents: today's OK BUYs of the instrument and of another
\* one, a SELL, an ERROR row, a row of an earlier day, a row without amount.
GateLogs ==
    { <<>>,
      <<LogRow(TRUE, "005930", "BUY", Some(60), "OK")>>,
      <<LogRow(TRUE, "005930", "BUY", Some(60), "OK"),
        LogRow(TRUE, "005930", "BUY", Some(60), "OK")>>,
      <<LogRow(TRUE, "035420", "BUY", Some(50), "OK")>>,
      <<LogRow(TRUE, "035420", "BUY", Some(50), "OK"),
        LogRow(TRUE, "005930", "BUY", Some(60), "OK")>>,
      <<LogRow(TRUE, "005930", "SELL", Some(60), "OK")>>,
      <<LogRow(TRUE, "005930", "BUY", Some(60), "ERROR")>>,
      <<LogRow(FALSE, "005930", "BUY", Some(60), "OK")>>,
      <<LogRow(TRUE, "005930", "BUY", None, "OK")>> }

Holding(code, qty, sellable, eval, price) ==
    [pdno |-> code, hldg_qty |-> qty, ord_psbl_qty |-> sellable, evlu_amt |-> eval,
     prpr |-> price]

\* Balance snapshots: the row of 005930 (absent, sold out, held with or
\* without a quote, partly sellable), the row of another instrument, the cash.
GateBalances ==
    { [output1 |-> x \o y, output2 |-> z] :
        x \in { <<>>,
                <<Holding("005930", Some(0), Some(0), Some(0), Some(60))>>,
                <<Holding("005930", Some(1), Some(1), Some(60), Some(60))>>,
                <<Holding("005930", Some(1), Some(0), Some(60), Some(60))>>,
                <<Holding("005930", Some(1), Some(1), Some(60), None)>>,
                <<Holding("005930", Some(8), Some(8), Some(480), Some(60))>>,
                <<Holding("005930", Some(8), Some(8), Some(480), None)>>,
                <<Holding("005930", Some(8), Some(8), None, None)>> },
        y \in { <<>>, <<Holding("035420", Some(2), Some(2), Some(100), Some(50))>> },
        z \in { <<>>, <<[dnca_tot_amt |-> Some(1000), nass_amt |-> None]>> } }

GateInit ==
    /\ settings \in GateSettings
    /\ orders \in GateLogs
    /\ held = [c \in NumericCodes |-> 0]
    /\ cash = 0
    /\ fills = <<>>
    /\ last = Idle
    /\ nreq = 0
    /\ threads = <<>>
    /\ env = NoEnv
    /\ out = NoOut
    /\ snapshots = <<>>
    /\ bars = <<>>
    /\ auto_runs = <<>>
    /\ proc = NoProc

\* One call of check_risk_limit per behaviour.
GateCheck ==
    /\ nreq = 0
    /\ nreq' = 1
    /\ \E b \in GateBalances, stock_code \in GateCodes, side \in {"BUY", "SELL"},
          quantity \in 1..MaxGateQty :
         last' = [Idle EXCEPT !.entry = "gate", !.stock_code = stock_code,
                              !.side = side, !.quantity = quantity, !.bal = b,
                              !.gate = check_risk_limit(b, settings, orders,
                                                        stock_code, side, quantity)]
    /\ UNCHANGED <<settings, orders, held, cash, fills, threads, env, out, aux>>

SpecGate == GateInit /\ [][GateCheck]_vars

(***************************************************************************)
(* Concurrent requests.  The endpoints are plain `def` handlers, which the *)
(* server runs on worker threads: POST /orders/market requests interleave  *)
(* at their calls to the broker and to the database.                       *)
(***************************************************************************)
RaceThreads == 2      \* requests in flight together

\* A request that has not started: its locals are unset.  held_at_fill
\* (ghost): the shares really held when its order was filled.
ThreadStart(quantity) ==
    [pc |-> "get_balance", stock_code |-> "005930", side |-> "BUY",
     quantity |-> quantity, bal |-> NoBalance, gate |-> NotRun,
     res |-> None, filled |-> FALSE, held_at_fill |-> 0, http |-> 0]

\* Settings tables the concurrent requests run under.
RaceSettings ==
    { {Row("005930", Some(2), Some(100), None, TRUE)},
      {Row(ALL, Some(3), Some(100), None, TRUE)} }

RaceInit ==
    /\ settings \in RaceSettings
    /\ orders = <<>>
    /\ held \in {[c \in NumericCodes |-> 0], [c \in NumericCodes |-> 1]}
    /\ cash = 1000
    /\ fills = <<>>
    /\ last = Idle
    /\ nreq = 0
    /\ threads \in [1..RaceThreads -> {ThreadStart(q) : q \in 1..MaxQty}]
    /\ env = NoEnv
    /\ out = NoOut
    /\ snapshots = <<>>
    /\ bars = <<>>
    /\ auto_runs = <<>>
    /\ proc = NoProc

\* check_risk_limit, line 114: bal = broker.get_balance()
race_get_balance(t) ==
    /\ threads[t].pc = "get_balance"
    /\ \E balance_ok \in BOOLEAN :
         threads' = [threads EXCEPT ![t] =
            IF balance_ok
            THEN [@ EXCEPT !.pc = "check", !.bal = GetBalance(held, cash)]
            ELSE [@ EXCEPT !.pc = "done", !.gate = GateError, !.http = 500]]
    /\ UNCHANGED <<settings, orders, held, cash, fills, last, nreq, env, out, aux>>

\* Faulty variant: the checks are not made.
RaceGate_Ignored(t) == Pass

\* The rest of check_risk_limit: the settings and today's orders are read
\* now, the balance is the one read before.
RaceGate(t) ==
    check_risk_limit(threads[t].bal, settings, orders, threads[t].stock_code,
                     threads[t].side, threads[t].quantity)

race_check(t) ==
    /\ threads[t].pc = "check"
    /\ threads' = [threads EXCEPT ![t] =
          IF RaceGate(t).outcome = "PASS"
          THEN [@ EXCEPT !.pc = "submit", !.gate = RaceGate(t)]
          ELSE [@ EXCEPT !.pc = "done", !.gate = RaceGate(t), !.http = 400]]
    /\ UNCHANGED <<settings, orders, held, cash, fills, last, nreq, env, out, aux>>

\* place_market_order, lines 2585-2591: the broker call.
race_submit(t) ==
    /\ threads[t].pc = "submit"
    /\ \E reply \in Replies(threads[t].stock_code, threads[t].side, threads[t].quantity) :
         IF place_cash_order_raises(reply)
         THEN /\ threads' = [threads EXCEPT ![t] = [@ EXCEPT !.pc = "done", !.http = 500]]
              /\ UNCHANGED <<held, cash, fills>>
         ELSE /\ Filled(threads[t].stock_code, threads[t].side, threads[t].quantity)
              /\ threads' = [threads EXCEPT ![t] =
                    [@ EXCEPT !.pc = "audit", !.res = Some(reply), !.filled = TRUE,
                              !.held_at_fill = held[threads[t].stock_code]]]
    /\ UNCHANGED <<settings, orders, last, nreq, env, out, aux>>

\* place_market_order, lines 2593-2624: the order log row and the response.
race_audit(t) ==
    /\ threads[t].pc = "audit"
    /\ \E fault \in AuditFaults :
         /\ orders' = AuditLog(orders,
                               TradeOrderRow(Val(threads[t].res), threads[t].stock_code,
                                             threads[t].side, threads[t].quantity),
                               fault)
         /\ threads' = [threads EXCEPT ![t] =
               [@ EXCEPT !.pc = "done",
                         !.http = IF AuditRaises(fault) THEN 500 ELSE 200]]
    /\ UNCHANGED <<settings, held, cash, fills, last, nreq, env, out, aux>>

RaceNext ==
    \E t \in 1..RaceThreads :
        \/ race_get_balance(t)
        \/ race_check(t)
        \/ race_submit(t)
        \/ race_audit(t)

SpecRace == RaceInit /\ [][RaceNext]_vars

(***************************************************************************)
(* SingleStockTradingEnv (rl_trading_env.py).                              *)
(*                                                                         *)
(* Numbers are exact.  Positions and actions are counted in halves         *)
(* (PosDen), the transaction cost in halves (TcDen), prices are small      *)
(* integers, and equity is counted in units of EPS / StepDen^MaxEnvCalls,  *)
(* StepDen being a common denominator of one step's pnl: MaxEnvCalls       *)
(* steps then leave every equity a whole number of units.  The float32     *)
(* cast of the observation is below that resolution and is left out.       *)
(***************************************************************************)
MaxEnvCalls == 4      \* calls of reset and step in one behaviour

PosDen == 2
TcDen == 2
MaxPrice == 2
StepDen == PosDen * TcDen * MaxPrice

\* 1e-6, the floor of equity, in equity units.
EPS == StepDen ^ MaxEnvCalls

Frac(n, d) == [n |-> n, d |-> d]
\* The configurations and the data an environment is constructed on.
EnvConfigs ==
    [window_size : {2},
     initial_cash : {EPS, 2 * EPS},
     max_position : {1, 2, 4},
     transaction_cost : {0, 1},
     reward_scale : {1, 2}]

\* Close prices per bar, sorted by datetime; len > window_size + 1.
PriceSeries ==
    { <<1, 1, 2, 1>>, <<2, 1, 0, 1>>, <<1, 2, 1, 2, 0>>, <<1, 0, 2, 2, 1>> }

\* The feature row of bar i (0-based): its close and one more column.
FeatureRow(prices, i) == <<prices[i + 1], 10 + i>>
Features(prices) == [i \in 1..Len(prices) |-> FeatureRow(prices, i - 1)]
NFeatures == 2

\* __init__
Construct(config, prices) ==
    [constructed |-> TRUE,
     config |-> config,
     prices |-> prices,
     features |-> Features(prices),
     n_steps |-> Len(prices),
     current_step |-> 0,
     position |-> 0,
     cash |-> config.initial_cash,
     equity |-> config.initial_cash,
     equity_start |-> config.initial_cash]

\* Faulty variant: the window ends with the bar of the cursor.
get_observation_Lookahead(e) ==
    LET start == e.current_step - e.config.window_size + 1
        end == e.current_step + 1
        feats == PySlice(e.features, start, end)
        cum_return == Frac(e.equity - e.equity_start, e.equity_start)
    IN  IF Len(feats) # e.config.window_size THEN None
        ELSE Some([r \in 1..e.config.window_size |->
                      feats[r] \o <<e.position, cum_return>>])

\* _get_observation: None stands for the ValueError of np.concatenate when
\* the slice of features has not window_size rows.
get_observation(e) ==
    LET start == e.current_step - e.config.window_size
        end == e.current_step
        feats == PySlice(e.features, start, end)
        cum_return == Frac(e.equity - e.equity_start, e.equity_start)
    IN  IF Len(feats) # e.config.window_size THEN None
        ELSE Some([r \in 1..e.config.window_size |->
                      feats[r] \o <<e.position, cum_return>>])

\* Raw action values a caller passes to step, in halves: -2 .. 2.
RawActions == {-4, -1, 0, 2, 4}

\* np.clip(a, lo, hi) = minimum(maximum(a, lo), hi)
Clip(a, lo, hi) == Min(Max(a, lo), hi)

\* Faulty variant: the position is updated before the cost is taken.
PosChange_AfterUpdate(target_pos, position) == Abs(target_pos - target_pos)

\* pos_change = abs(target_pos - self._position), before the update
PosChange(target_pos, position) == Abs(target_pos - position)

\* price_return, as a fraction
PriceReturn(prev_price, curr_price) ==
    IF prev_price <= 0 THEN Frac(0, 1)
    ELSE Frac(curr_price - prev_price, prev_price)

\* Faulty variant: the account is always fully invested.
StepPnl_FullyInvested(prev_equity, target_pos, pos_change, pr, tc) ==
    (prev_equity * PosDen * pr.n * TcDen - prev_equity * pos_change * tc * pr.d)
        \div (PosDen * pr.d * TcDen)

\* pnl = prev_equity * position * price_return - trade_cost, with
\* trade_cost = equity * pos_change * transaction_cost; in equity units.
StepPnl(prev_equity, target_pos, pos_change, pr, tc) ==
    (prev_equity * target_pos * pr.n * TcDen - prev_equity * pos_change * tc * pr.d)
        \div (PosDen * pr.d * TcDen)

\* Faulty variant: no floor.
FloorEquity_None(x) == x

\* max(prev_equity + pnl, 1e-6)
FloorEquity(x) == Max(x, EPS)

\* Faulty variant: the episode ends one step late.
Terminated_AtEnd(current_step, n_steps) == current_step >= n_steps

\* terminated = self._current_step >= self.n_steps - 1
Terminated(current_step, n_steps) == current_step >= n_steps - 1

\* Faulty variant: the account is left as the episode left it.
Reset_KeepAccount(e) ==
    [e EXCEPT !.current_step = e.config.window_size, !.position = 0]

\* The fields of the environment after reset.
Reset(e) ==
    [e EXCEPT !.current_step = e.config.window_size,
              !.position = 0,
              !.cash = e.config.initial_cash,
              !.equity = e.config.initial_cash,
              !.equity_start = e.config.initial_cash]

\* What a call returned, and (ghost) what the properties need of the run:
\* before: the fields of the environment when the call was made;
\* phase: INITIALIZED until the first reset, RUNNING after a reset,
\*        TERMINATED once a step has reported terminated;
\* phase_before: the phase when the call was made;
\* steps: steps made since the last reset; zero_run: all of them with action 0.
EnvOut(op, before, phase_before) ==
    [op |-> op, raw |-> 0, raised |-> "none", before |-> before,
     obs |-> None, reward |-> Frac(0, 1), terminated |-> FALSE,
     price_return |-> Frac(0, 1), step_return |-> Frac(0, 1),
     phase |-> phase_before, phase_before |-> phase_before,
     steps |-> 0, zero_run |-> TRUE]

PhaseOf(o) == IF o.op = "none" THEN "INITIALIZED" ELSE o.phase
StepsOf(o) == IF o.op = "none" THEN 0 ELSE o.steps
ZeroRunOf(o) == IF o.op = "none" THEN TRUE ELSE o.zero_run

\* reset()
env_reset ==
    /\ env.constructed
    /\ nreq < MaxEnvCalls
    /\ nreq' = nreq + 1
    /\ env' = Reset(env)
    /\ out' = [EnvOut("reset", env, PhaseOf(out)) EXCEPT
                  !.obs = get_observation(env'),
                  !.phase = "RUNNING"]
    /\ UNCHANGED <<settings, orders, held, cash, fills, last, threads, aux>>

\* step(action)
env_step ==
    /\ env.constructed
    /\ nreq < MaxEnvCalls
    /\ nreq' = nreq + 1
    /\ \E raw \in RawActions :
         LET target_pos == Clip(raw, -env.config.max_position, env.config.max_position)
             prev_price == PyIndex(env.prices, env.current_step - 1)
             curr_price == PyIndex(env.prices, env.current_step)
             called == [EnvOut("step", env, PhaseOf(out)) EXCEPT
                           !.raw = raw, !.steps = StepsOf(out),
                           !.zero_run = ZeroRunOf(out)]
         IN  IF IsNone(prev_price) \/ IsNone(curr_price)
             THEN \* IndexError, before any field is written
                  /\ env' = env
                  /\ out' = [called EXCEPT !.raised = "IndexError"]
             ELSE LET pos_change == PosChange(target_pos, env.position)
                      pr == PriceReturn(Val(prev_price), Val(curr_price))
                      prev_equity == env.equity
                      pnl == StepPnl(prev_equity, target_pos, pos_change, pr,
                                     env.config.transaction_cost)
                      equity == FloorEquity(prev_equity + pnl)
                      step_return == Frac(equity - prev_equity, Max(prev_equity, EPS))
                      reward == Frac(env.config.reward_scale * step_return.n,
                                     step_return.d)
                      current_step == env.current_step + 1
                      terminated == Terminated(current_step, env.n_steps)
                      after == [env EXCEPT !.position = target_pos,
                                           !.equity = equity,
                                           !.current_step = current_step]
                      obs == get_observation(after)
                  IN  /\ env' = after
                      /\ out' = IF IsNone(obs)
                                THEN \* raised by _get_observation, fields written
                                     [called EXCEPT !.raised = "ValueError"]
                                ELSE [called EXCEPT
                                        !.obs = obs, !.reward = reward,
                                        !.terminated = terminated,
                                        !.price_return = pr,
                                        !.step_return = step_return,
                                        !.phase = IF called.phase_before = "INITIALIZED"
                                                  THEN "INITIALIZED"
                                                  ELSE IF terminated THEN "TERMINATED"
                                                  ELSE called.phase_before,
                                        !.steps = called.steps + 1,
                                        !.zero_run = called.zero_run /\ raw = 0]
    /\ UNCHANGED <<settings, orders, held, cash, fills, last, threads, aux>>

EnvInit ==
    /\ settings = {}
    /\ orders = <<>>
    /\ held = [c \in NumericCodes |-> 0]
    /\ cash = 0
    /\ fills = <<>>
    /\ last = Idle
    /\ nreq = 0
    /\ threads = <<>>
    /\ env \in {Construct(config, prices) : config \in EnvConfigs, prices \in PriceSeries}
    /\ out = NoOut
    /\ snapshots = <<>>
    /\ bars = <<>>
    /\ auto_runs = <<>>
    /\ proc = NoProc

EnvNext ==
    \/ env_reset
    \/ env_step

SpecEnv == EnvInit /\ [][EnvNext]_vars

(***************************************************************************)
(* Floating-point values of the reporting and indicator code, kept exact:  *)
(* a finite value is a fraction n/d in lowest terms with d > 0; d = 0 is   *)
(* one of the three special values of IEEE arithmetic, +inf (n = 1),       *)
(* -inf (n = -1) and NaN (n = 0), which pandas and numpy produce instead   *)
(* of raising on a division by zero.                                       *)
(***************************************************************************)
RECURSIVE Gcd(_, _)
Gcd(a, b) == IF b = 0 THEN a ELSE Gcd(b, a % b)

Sign(k) == IF k > 0 THEN 1 ELSE IF k < 0 THEN -1 ELSE 0

\* NaN; +inf and -inf are [n |-> 1, d |-> 0] and [n |-> -1, d |-> 0].
NaN == [n |-> 0, d |-> 0]

\* The value n/d for d # 0, in lowest terms.
Q(n, d) ==
    LET g == Gcd(Abs(n), Abs(d))
    IN  [n |-> Sign(d) * (n \div g), d |-> Abs(d) \div g]
Num(k) == [n |-> k, d |-> 1]

IsNaN(x) == x = NaN
IsFinite(x) == x.d # 0

FAdd(x, y) ==
    IF IsNaN(x) \/ IsNaN(y) THEN NaN
    ELSE IF ~IsFinite(x) /\ ~IsFinite(y) THEN (IF x = y THEN x ELSE NaN)
    ELSE IF ~IsFinite(x) THEN x
    ELSE IF ~IsFinite(y) THEN y
    ELSE LET g == Gcd(x.d, y.d)
         IN  Q(x.n * (y.d \div g) + y.n * (x.d \div g), (x.d \div g) * y.d)

FSub(x, y) == FAdd(x, [n |-> -y.n, d |-> y.d])

FMul(x, y) ==
    IF IsNaN(x) \/ IsNaN(y) THEN NaN
    ELSE IF ~IsFinite(x) \/ ~IsFinite(y)
         THEN (IF x.n = 0 \/ y.n = 0 THEN NaN ELSE [n |-> Sign(x.n) * Sign(y.n), d |-> 0])
    ELSE LET g == Gcd(Abs(x.n), y.d)
             h == Gcd(Abs(y.n), x.d)
         IN  Q((x.n \div g) * (y.n \div h), (x.d \div h) * (y.d \div g))

\* x / y of numpy floats: a zero divisor gives inf, or NaN for 0/0.
FDiv(x, y) ==
    IF IsNaN(x) \/ IsNaN(y) THEN NaN
    ELSE IF ~IsFinite(y) THEN (IF IsFinite(x) THEN Num(0) ELSE NaN)
    ELSE IF ~IsFinite(x) THEN [n |-> IF y.n < 0 THEN -x.n ELSE x.n, d |-> 0]
    ELSE IF y.n = 0 THEN (IF x.n = 0 THEN NaN ELSE [n |-> Sign(x.n), d |-> 0])
    ELSE FMul(x, Q(y.d, y.n))

\* x < y; every comparison with NaN is false.
FLt(x, y) ==
    IF IsNaN(x) \/ IsNaN(y) THEN FALSE
    ELSE IF ~IsFinite(x) \/ ~IsFinite(y)
         THEN (IF IsFinite(x) THEN y.n > 0
               ELSE IF IsFinite(y) THEN x.n < 0
               ELSE x.n < y.n)
    ELSE x.n * y.d < y.n * x.d
FGt(x, y) == FLt(y, x)

(***************************************************************************)
(* GET /metrics/performance (get_performance).  An account_snapshots row   *)
(* keeps created_at (in days), total_value and total_pnl; the two floats   *)
(* are nullable.                                                           *)
(***************************************************************************)
MaxSnapshots == 4     \* rows of the account_snapshots table
MaxDays == 3          \* largest `days` of a request (the code allows 1..365)

\* The tables: one snapshot a day, the row of day t at place t, with the
\* values and P&L figures a row carries.
SnapshotTables ==
    LET figures == {[total_value |-> None, total_pnl |-> None],
                    [total_value |-> Some(0), total_pnl |-> Some(5)],
                    [total_value |-> Some(100), total_pnl |-> Some(0)],
                    [total_value |-> Some(120), total_pnl |-> Some(20)],
                    [total_value |-> Some(90), total_pnl |-> Some(-30)],
                    [total_value |-> Some(130), total_pnl |-> Some(40)]}
    IN  UNION {{[t \in 1..n |-> [created_at |-> t,
                                 total_value |-> f[t].total_value,
                                 total_pnl |-> f[t].total_pnl]] :
                    f \in [1..n -> figures]} : n \in 0..MaxSnapshots}

RECURSIVE SortByCreatedAt(_)
SortByCreatedAt(rows) ==
    IF rows = {} THEN <<>>
    ELSE LET first == CHOOSE r \in rows : \A q \in rows : r.created_at <= q.created_at
         IN  <<first>> \o SortByCreatedAt(rows \ {first})

\* Faulty variant: the peak is the first value, never a later high.
RunningPeak_First(max_peak, v) == max_peak

\* `if v > max_peak: max_peak = v`
RunningPeak(max_peak, v) == IF FGt(v, max_peak) THEN v ELSE max_peak

\* The drawdown loop from place i on, with the loop's max_peak and max_dd.
RECURSIVE MaxDrawdown(_, _, _, _)
MaxDrawdown(equity, i, max_peak, max_dd) ==
    IF i > Len(equity) THEN max_dd
    ELSE LET v == equity[i]
             peak == RunningPeak(max_peak, v)
             dd == FMul(FDiv(FSub(peak, v), peak), Num(100))
         IN  MaxDrawdown(equity, i + 1, peak,
                         IF FGt(peak, Num(0)) /\ FGt(dd, max_dd) THEN dd ELSE max_dd)

RECURSIVE FSum(_)
FSum(xs) == IF xs = <<>> THEN Num(0) ELSE FAdd(Head(xs), FSum(Tail(xs)))

\* get_performance on the rows of the query.
PerformanceOf(rows) ==
    IF rows = <<>>
    THEN [summary |-> [start_value |-> Num(0), end_value |-> Num(0),
                       total_return_pct |-> Num(0), max_drawdown_pct |-> Num(0),
                       pnl_sum |-> Num(0)],
          snapshots |-> <<>>]
    ELSE LET snaps == [i \in 1..Len(rows) |->
                          [timestamp |-> rows[i].created_at,
                           total_value |-> Num(OrElse(rows[i].total_value, 0)),
                           total_pnl |-> Num(OrElse(rows[i].total_pnl, 0))]]
             equity == [i \in 1..Len(rows) |-> Num(OrElse(rows[i].total_value, 0))]
             start_val == equity[1]
             end_val == equity[Len(equity)]
         IN  [summary |->
                 [start_value |-> start_val,
                  end_value |-> end_val,
                  total_return_pct |->
                      IF start_val # Num(0)
                      THEN FMul(FDiv(FSub(end_val, start_val), start_val), Num(100))
                      ELSE Num(0),
                  max_drawdown_pct |-> MaxDrawdown(equity, 1, equity[1], Num(0)),
                  pnl_sum |-> FSum([i \in 1..Len(snaps) |-> snaps[i].total_pnl])],
              snapshots |-> snaps]

\* The handler: utcnow() is the day of the latest row or a later day; the
\* query is created_at >= cutoff, ORDER BY created_at ASC.
get_performance ==
    /\ out = NoOut
    /\ \E days \in 1..MaxDays, now \in Len(snapshots)..(Len(snapshots) + MaxDays) :
         LET rows == SortByCreatedAt({snapshots[i] : i \in
                        {j \in 1..Len(snapshots) : snapshots[j].created_at >= now - days}})
         IN  out' = [op |-> "get_performance", days |-> days, now |-> now,
                     http |-> 200, response |-> PerformanceOf(rows)]
    /\ UNCHANGED <<settings, orders, held, cash, fills, last, nreq, threads, env,
                   snapshots, bars, auto_runs, proc>>

PerfInit ==
    /\ settings = {}
    /\ orders = <<>>
    /\ held = [c \in NumericCodes |-> 0]
    /\ cash = 0
    /\ fills = <<>>
    /\ last = Idle
    /\ nreq = 0
    /\ threads = <<>>
    /\ env = NoEnv
    /\ out = NoOut
    /\ snapshots \in SnapshotTables
    /\ bars = <<>>
    /\ auto_runs = <<>>
    /\ proc = NoProc

SpecPerf == PerfInit /\ [][get_performance]_vars

(***************************************************************************)
(* TechnicalIndicators (technical_indicators.py).  A bar is a row of the   *)
(* DataFrame: open, high, low, close, volume.  A column is the sequence    *)
(* of its values, one per bar, NaN where pandas leaves the value undefined.*)
(* The windows are scaled down: a rolling window or span of the code       *)
(* (5 .. 60 bars) is Window or Window + 1 bars here.                       *)
(***************************************************************************)
MaxBars == 4          \* bars of a DataFrame
Window == 2           \* the shorter rolling window and span

\* The column of a bar field.
Col(frame, field) == [i \in 1..Len(frame) |-> Num(frame[i][field])]

\* Series.shift(k): the value k bars earlier, NaN before the first bars.
Shift(s, k) == [i \in 1..Len(s) |-> IF i - k >= 1 THEN s[i - k] ELSE NaN]

\* Element by element.
Minus(a, b) == [i \in 1..Len(a) |-> FSub(a[i], b[i])]
Over(a, b) == [i \in 1..Len(a) |-> FDiv(a[i], b[i])]

\* Series.diff() and Series.pct_change(periods).
Diff(s) == Minus(s, Shift(s, 1))
PctChange(s, periods) == Minus(Over(s, Shift(s, periods)), [i \in 1..Len(s) |-> Num(1)])

\* Faulty variant: a window centred on the bar, which takes in the next bar.
WindowOf_Centered(s, i, window) ==
    SubSeq(s, Max(1, i - window + 2), Min(Len(s), i + 1))

\* The bars a rolling window ending at bar i covers.
WindowOf(s, i, window) == SubSeq(s, Max(1, i - window + 1), i)

\* rolling(window): a value only with `window` observations, none of them
\* NaN or infinite (pandas takes an infinite value as missing).
Observed(s, i, window) ==
    /\ i >= window
    /\ \A j \in 1..Len(WindowOf(s, i, window)) : IsFinite(WindowOf(s, i, window)[j])

RollingMean(s, window) ==
    [i \in 1..Len(s) |->
        LET xs == WindowOf(s, i, window)
        IN  IF Observed(s, i, window) THEN FDiv(FSum(xs), Num(Len(xs))) ELSE NaN]
RollingMin(s, window) ==
    [i \in 1..Len(s) |->
        LET xs == WindowOf(s, i, window)
        IN  IF Observed(s, i, window)
            THEN CHOOSE x \in {xs[j] : j \in 1..Len(xs)} : \A j \in 1..Len(xs) : ~FLt(xs[j], x)
            ELSE NaN]
RollingMax(s, window) ==
    [i \in 1..Len(s) |->
        LET xs == WindowOf(s, i, window)
        IN  IF Observed(s, i, window)
            THEN CHOOSE x \in {xs[j] : j \in 1..Len(xs)} : \A j \in 1..Len(xs) : ~FGt(xs[j], x)
            ELSE NaN]
\* The square of rolling(window).std(): the sample variance (ddof = 1); a
\* one-bar window has none.
RollingVar(s, window) ==
    [i \in 1..Len(s) |->
        LET xs == WindowOf(s, i, window)
            m == FDiv(FSum(xs), Num(Len(xs)))
            sq == [j \in 1..Len(xs) |-> FMul(FSub(xs[j], m), FSub(xs[j], m))]
        IN  IF Observed(s, i, window) THEN FDiv(FSum(sq), Num(Len(xs) - 1)) ELSE NaN]

\* Faulty variant: the weight of a simple average over `span` bars.
EwmAlpha_Simple(span) == Q(1, span)

\* ewm(span): alpha = 2 / (span + 1).
EwmAlpha(span) == Q(2, span + 1)

\* ewm(span, adjust=False).mean() of a series without missing values:
\* y_0 = x_0, y_t = (1 - alpha) * y_(t-1) + alpha * x_t.
RECURSIVE EwmAt(_, _, _)
EwmAt(s, span, t) ==
    IF t = 1 THEN s[1]
    ELSE FAdd(FMul(FSub(Num(1), EwmAlpha(span)), EwmAt(s, span, t - 1)),
              FMul(EwmAlpha(span), s[t]))
Ewm(s, span) == [t \in 1..Len(s) |-> EwmAt(s, span, t)]

\* add_moving_averages and add_exponential_moving_averages: MA_5, MA_10
\* (and MA_20, MA_60 alike), EMA_12, EMA_26.
EmaSpans == [EMA_12 |-> Window, EMA_26 |-> Window + 1]
add_moving_averages(frame) ==
    LET periods == [MA_5 |-> Window, MA_10 |-> Window + 1]
    IN  [c \in DOMAIN periods |-> RollingMean(Col(frame, "close"), periods[c])]
add_exponential_moving_averages(frame) ==
    [c \in DOMAIN EmaSpans |-> Ewm(Col(frame, "close"), EmaSpans[c])]

\* add_rsi: delta.where(delta > 0, 0) is 0 on the first bar, whose delta is NaN.
add_rsi(frame, period) ==
    LET delta == Diff(Col(frame, "close"))
        up == [i \in 1..Len(frame) |->
                  IF FGt(delta[i], Num(0)) THEN delta[i] ELSE Num(0)]
        down == [i \in 1..Len(frame) |->
                    IF FLt(delta[i], Num(0)) THEN FSub(Num(0), delta[i]) ELSE Num(0)]
        gain == RollingMean(up, period)
        loss == RollingMean(down, period)
        rs == Over(gain, loss)
    IN  [RSI |-> [i \in 1..Len(frame) |->
                    FSub(Num(100), FDiv(Num(100), FAdd(Num(1), rs[i])))]]

add_macd(frame, fast, slow, signal) ==
    LET macd == Minus(Ewm(Col(frame, "close"), fast), Ewm(Col(frame, "close"), slow))
        sig == Ewm(macd, signal)
    IN  [MACD |-> macd, MACD_Signal |-> sig, MACD_Hist |-> Minus(macd, sig)]

add_stochastic(frame, period, smooth_k, smooth_d) ==
    LET low_min == RollingMin(Col(frame, "low"), period)
        high_max == RollingMax(Col(frame, "high"), period)
        range == Minus(Col(frame, "close"), low_min)
        stoch_k == Over([i \in 1..Len(frame) |-> FMul(Num(100), range[i])],
                        Minus(high_max, low_min))
        k == RollingMean(stoch_k, smooth_k)
    IN  [Stoch_K |-> k, Stoch_D |-> RollingMean(k, smooth_d)]

\* A band value a + b * std, the standard deviation kept as its square
\* `var` (std is irrational in general); NaN is a = NaN.
Band(a, b, var) ==
    IF IsNaN(a) \/ IsNaN(b) \/ IsNaN(var) THEN [a |-> NaN, b |-> Num(0), var |-> Num(0)]
    ELSE IF ~IsFinite(a) \/ b = Num(0) \/ var = Num(0)
         THEN [a |-> a, b |-> Num(0), var |-> Num(0)]
    ELSE [a |-> a, b |-> b, var |-> var]

\* add_bollinger_bands, with std_dev = 2.  BB_Width is 4 std / middle and
\* BB_PctB is (close - middle + 2 std) / (4 std), which is
\* 1/2 + (close - middle) / (4 var) * std for a positive std, and the
\* quotient of close - middle by zero for a zero std.
add_bollinger_bands(frame, period) ==
    LET close == Col(frame, "close")
        middle == RollingMean(close, period)
        var == RollingVar(close, period)
        n == Len(frame)
    IN  [BB_Middle |-> middle,
         BB_Upper |-> [i \in 1..n |-> Band(middle[i], Num(2), var[i])],
         BB_Lower |-> [i \in 1..n |-> Band(middle[i], Num(-2), var[i])],
         BB_Width |-> [i \in 1..n |->
                         IF var[i] = Num(0) THEN Band(FDiv(Num(0), middle[i]), Num(0), Num(0))
                         ELSE Band(IF IsFinite(middle[i]) THEN Num(0) ELSE NaN,
                                   FDiv(Num(4), middle[i]), var[i])],
         BB_PctB |-> [i \in 1..n |->
                         IF var[i] = Num(0)
                         THEN Band(FDiv(FSub(close[i], middle[i]), Num(0)), Num(0), Num(0))
                         ELSE Band(IF IsFinite(middle[i]) THEN Q(1, 2) ELSE NaN,
                                   FDiv(FSub(close[i], middle[i]), FMul(Num(4), var[i])),
                                   var[i])]]

\* add_atr: np.abs of the two gaps, and max(axis=1) of a row, which skips
\* the missing values.
add_atr(frame, period) ==
    LET prev == Shift(Col(frame, "close"), 1)
        high_low == Minus(Col(frame, "high"), Col(frame, "low"))
        high_close == Minus(Col(frame, "high"), prev)
        low_close == Minus(Col(frame, "low"), prev)
        abs(x) == IF x.n < 0 THEN [n |-> -x.n, d |-> x.d] ELSE x
        true_range == [i \in 1..Len(frame) |->
                          LET seen == {x \in {high_low[i], abs(high_close[i]),
                                               abs(low_close[i])} : ~IsNaN(x)}
                          IN  IF seen = {} THEN NaN
                              ELSE CHOOSE x \in seen : \A y \in seen : ~FGt(y, x)]
    IN  [ATR |-> RollingMean(true_range, period)]

\* The running sum of a column.
RECURSIVE CumSumAt(_, _)
CumSumAt(s, i) == IF i = 0 THEN Num(0) ELSE FAdd(CumSumAt(s, i - 1), s[i])

\* add_volume_indicators: Volume_MA_5, Volume_MA_20, Volume_Ratio, OBV.
add_volume_indicators(frame) ==
    LET volume == Col(frame, "volume")
        delta == Diff(Col(frame, "close"))
        signed == [i \in 1..Len(frame) |->
                      IF IsNaN(delta[i]) THEN Num(0)
                      ELSE FMul(Num(Sign(delta[i].n)), volume[i])]
    IN  [Volume_MA_5 |-> RollingMean(volume, Window),
         Volume_MA_20 |-> RollingMean(volume, Window + 1),
         Volume_Ratio |-> Over(volume, RollingMean(volume, Window + 1)),
         OBV |-> [i \in 1..Len(frame) |-> CumSumAt(signed, i)]]

\* add_price_change: Return, Log_Return, Return_5d (and _10d, _20d alike),
\* HL_Ratio, CO_Ratio.  Log_Return is kept as the ratio whose logarithm it is.
add_price_change(frame) ==
    LET close == Col(frame, "close")
    IN  [Return |-> PctChange(close, 1),
         Log_Return |-> [i \in 1..Len(frame) |-> [log_of |-> Over(close, Shift(close, 1))[i]]],
         Return_5d |-> PctChange(close, Window),
         HL_Ratio |-> Over(Minus(Col(frame, "high"), Col(frame, "low")), close),
         CO_Ratio |-> Over(Minus(close, Col(frame, "open")), Col(frame, "open"))]

\* The columns add_all_indicators adds.
AllIndicators(frame) ==
    add_moving_averages(frame) @@ add_exponential_moving_averages(frame)
    @@ add_rsi(frame, Window) @@ add_macd(frame, Window, Window + 1, Window)
    @@ add_stochastic(frame, Window, Window, Window)
    @@ add_bollinger_bands(frame, Window) @@ add_atr(frame, Window)
    @@ add_volume_indicators(frame) @@ add_price_change(frame)

\* The bars of the model: closes that rise, fall and stay, one bar without
\* range or volume, and the series of closes 100, 102, 101, 105.
Bar(open, high, low, close, volume) ==
    [open |-> open, high |-> high, low |-> low, close |-> close, volume |-> volume]

\* A later bar arrives and is appended to the DataFrame.
append_bar ==
    /\ Len(bars) < MaxBars
    /\ \E b \in {Bar(1, 2, 1, 1, 10), Bar(1, 3, 1, 3, 20), Bar(2, 2, 2, 2, 0)} :
         bars' = Append(bars, b)
    /\ UNCHANGED <<settings, orders, held, cash, fills, last, nreq, threads, env, out,
                   snapshots, auto_runs, proc>>

\* add_all_indicators on the DataFrame as it is now; `before` keeps the
\* previous run's input and output, for the properties.
add_all_indicators ==
    /\ bars # <<>>
    /\ out' = [op |-> "add_all_indicators", frame |-> bars, cols |-> AllIndicators(bars),
               before |-> IF out.op = "add_all_indicators"
                          THEN Some([frame |-> out.frame, cols |-> out.cols])
                          ELSE None]
    /\ UNCHANGED <<settings, orders, held, cash, fills, last, nreq, threads, env,
                   snapshots, bars, auto_runs, proc>>

IndInit ==
    /\ settings = {}
    /\ orders = <<>>
    /\ held = [c \in NumericCodes |-> 0]
    /\ cash = 0
    /\ fills = <<>>
    /\ last = Idle
    /\ nreq = 0
    /\ threads = <<>>
    /\ env = NoEnv
    /\ out = NoOut
    /\ snapshots = <<>>
    /\ bars \in {<<>>,
                  <<Bar(100, 101, 99, 100, 10), Bar(100, 103, 100, 102, 10),
                    Bar(102, 102, 100, 101, 10), Bar(101, 106, 101, 105, 10)>>}
    /\ auto_runs = <<>>
    /\ proc = NoProc

IndNext ==
    \/ append_bar
    \/ add_all_indicators

SpecInd == IndInit /\ [][IndNext]_vars

(***************************************************************************)
(* Strategy runs started through the API and the risk settings endpoint.   *)
(* run_auto_trade_once and api_trade_auto block on subprocess.run of       *)
(* auto_trader.py with a timeout; the script is run_hourly_trading, one    *)
(* pass per stock of STOCKS.  `proc` follows the subprocess:               *)
(* pc: running, done (the script exited and the handler returned),         *)
(*     aborted (killed on the timeout), refused (never started);           *)
(* next: the stock of the script's next pass; timed_out: TimeoutExpired    *)
(* was raised in the handler.                                              *)
(***************************************************************************)
StartRun(entry, key_ok) ==
    [pc |-> "running", entry |-> entry, key_ok |-> key_ok, next |-> 1,
     timed_out |-> FALSE, returncode |-> None, http |-> 0, fault |-> "none",
     fills_at_start |-> Len(fills), fills_at_end |-> Len(fills),
     runs_at_start |-> Len(auto_runs)]

\* POST /auto-trade/run-once, up to the call of subprocess.run.
run_auto_trade_once ==
    /\ nreq < MaxRequests
    /\ proc.pc # "running"
    /\ nreq' = nreq + 1
    /\ \E key_ok \in BOOLEAN, script_found \in BOOLEAN :
         proc' = IF ~key_ok
                 THEN [StartRun("run_once", key_ok) EXCEPT !.pc = "refused", !.http = 401]
                 ELSE IF ~script_found
                 THEN [StartRun("run_once", key_ok) EXCEPT !.pc = "refused", !.http = 500]
                 ELSE StartRun("run_once", key_ok)
    /\ UNCHANGED <<settings, orders, held, cash, fills, last, threads, env, out,
                   snapshots, bars, auto_runs>>

\* POST /trade/auto, up to the call of subprocess.run.  The handler takes
\* no X-API-Key header.
api_trade_auto ==
    /\ nreq < MaxRequests
    /\ proc.pc # "running"
    /\ nreq' = nreq + 1
    /\ \E key_ok \in BOOLEAN, script_found \in BOOLEAN :
         proc' = IF ~script_found
                 THEN [StartRun("trade_auto", key_ok) EXCEPT !.pc = "refused", !.http = 500]
                 ELSE StartRun("trade_auto", key_ok)
    /\ UNCHANGED <<settings, orders, held, cash, fills, last, threads, env, out,
                   snapshots, bars, auto_runs>>

\* The script's pass for its next stock, with the feature file and the
\* policy actions of the script's passes.
auto_trader_pass ==
    /\ proc.pc = "running"
    /\ proc.next <= Len(Stocks)
    /\ HourlyPass(proc.next, {Some([i \in 1..HourlyWindow |-> CsvRow(i)])}, {-10, 10})
    /\ proc' = [proc EXCEPT !.next = @ + 1, !.fills_at_end = Len(fills')]
    /\ UNCHANGED <<settings, orders, nreq, threads, env, out,
                   snapshots, bars, auto_runs>>

\* subprocess.run returns: the script has ended, after its last pass
\* (returncode 0) or on an exception it does not catch (returncode 1).
\* run_auto_trade_once then records the run, api_trade_auto does not.
subprocess_returns ==
    /\ proc.pc = "running"
    /\ LET returncode == IF proc.next > Len(Stocks) THEN 0 ELSE 1
       IN  IF proc.entry = "run_once"
           THEN \E fault \in AuditFaults :
                /\ auto_runs' = AuditLog(auto_runs, [returncode |-> returncode], fault)
                /\ proc' = [proc EXCEPT !.pc = "done", !.returncode = Some(returncode),
                                        !.fault = fault,
                                        !.http = IF AuditRaises(fault) THEN 500 ELSE 200]
           ELSE /\ auto_runs' = auto_runs
                /\ proc' = [proc EXCEPT !.pc = "done", !.returncode = Some(returncode),
                                        !.http = 200]
    /\ UNCHANGED <<settings, orders, held, cash, fills, last, nreq, threads, env, out,
                   snapshots, bars>>

\* Faulty variant: the handler raises on the timeout but the script is not
\* killed.
AfterTimeout_NotKilled(p) == [p EXCEPT !.timed_out = TRUE, !.http = 500]

\* subprocess.TimeoutExpired: subprocess.run has killed the script and
\* waited for it; the handler raises HTTP 500 before its database block.
AfterTimeout(p) == [p EXCEPT !.pc = "aborted", !.timed_out = TRUE, !.http = 500]

subprocess_timeout ==
    /\ proc.pc = "running"
    /\ ~proc.timed_out
    /\ proc' = AfterTimeout(proc)
    /\ UNCHANGED <<settings, orders, held, cash, fills, last, nreq, threads, env, out,
                   snapshots, bars, auto_runs>>

\* RiskSettingIn: the three limits default to None, `active` to True.
RiskSettingIn(json) ==
    [max_position_shares |-> json.max_position_shares,
     max_weight_pct |-> json.max_weight_pct,
     max_daily_buy_amount |-> json.max_daily_buy_amount,
     active |-> CASE json.active = "omitted" -> Some(TRUE)
                  [] json.active = "true" -> Some(TRUE)
                  [] json.active = "false" -> Some(FALSE)
                  [] OTHER -> None]

\* The row after the four `if body.x is not None` assignments; a new row
\* starts with no limits and the column default active = True.
UpsertedRow(table, stock_code, body) ==
    LET found == {r \in table : r.stock_code = stock_code}
        setting == IF found = {} THEN Row(stock_code, None, None, None, TRUE)
                   ELSE CHOOSE r \in found : TRUE
    IN  [stock_code |-> setting.stock_code,
         max_position_shares |->
             IF IsNone(body.max_position_shares) THEN setting.max_position_shares
             ELSE body.max_position_shares,
         max_weight_pct |->
             IF IsNone(body.max_weight_pct) THEN setting.max_weight_pct
             ELSE body.max_weight_pct,
         max_daily_buy_amount |->
             IF IsNone(body.max_daily_buy_amount) THEN setting.max_daily_buy_amount
             ELSE body.max_daily_buy_amount,
         active |-> IF IsNone(body.active) THEN setting.active ELSE Val(body.active)]

\* PUT /settings/risk/{stock_code}.  In the JSON body a field is given
\* (Some) or left out (None); `active` may also be given as null.
upsert_risk_setting ==
    /\ nreq < MaxRequests
    /\ nreq' = nreq + 1
    /\ \E stock_code \in {"005930", ALL},
          json \in [max_position_shares : {None, Some(1)},
                    max_weight_pct : {None},
                    max_daily_buy_amount : {None},
                    active : {"omitted", "null", "true", "false"}],
          key_ok \in BOOLEAN,
          fault \in {"none", "commit"} :
         LET call == [op |-> "upsert_risk_setting", stock_code |-> stock_code,
                      json |-> json, key_ok |-> key_ok, before |-> settings]
             row == UpsertedRow(settings, stock_code, RiskSettingIn(json))
         IN  IF ~key_ok
             THEN /\ out' = call @@ [http |-> 401]
                  /\ settings' = settings
             ELSE IF fault # "none"
             THEN \* rollback, "리스크 설정 저장 실패"
                  /\ out' = call @@ [http |-> 500]
                  /\ settings' = settings
             ELSE /\ out' = call @@ [http |-> 200]
                  /\ settings' = {r \in settings : r.stock_code # stock_code} \cup {row}
    /\ UNCHANGED <<orders, held, cash, fills, last, threads, env,
                   snapshots, bars, auto_runs, proc>>

\* The settings tables and the account the API starts from.
ApiInit ==
    /\ settings \in { {}, {Row("005930", Some(2), None, None, FALSE)} }
    /\ orders = <<>>
    /\ held = [c \in NumericCodes |-> 1]
    /\ cash = 1000
    /\ fills = <<>>
    /\ last = Idle
    /\ nreq = 0
    /\ threads = <<>>
    /\ env = NoEnv
    /\ out = NoOut
    /\ snapshots = <<>>
    /\ bars = <<>>
    /\ auto_runs = <<>>
    /\ proc = NoProc

ApiNext ==
    \/ run_auto_trade_once
    \/ api_trade_auto
    \/ auto_trader_pass
    \/ subprocess_returns
    \/ subprocess_timeout
    \/ upsert_risk_setting

SpecApi == ApiInit /\ [][ApiNext]_vars

(***************************************************************************)
(* Every endpoint that can submit an order or change a risk setting.       *)
(***************************************************************************)
EndpointsNext ==
    \/ place_market_order
    \/ api_trade
    \/ run_auto_trade_once
    \/ api_trade_auto
    \/ auto_trader_pass
    \/ subprocess_returns
    \/ subprocess_timeout
    \/ upsert_risk_setting

SpecEndpoints == ApiInit /\ [][EndpointsNext]_vars

(***************************************************************************)
(* Properties.  What a property needs of the snapshot is read off again    *)
(* here, from the holdings rows themselves.                                *)
(***************************************************************************)
ApiEntries == {"orders_market", "trade"}

\* The holdings row of an instrument in a snapshot (the last one, if several).
SnapshotRow(b, code) ==
    LET idx == {i \in 1..Len(b.output1) : b.output1[i].pdno = code}
    IN  IF idx = {} THEN None
        ELSE Some(b.output1[CHOOSE i \in idx : \A j \in idx : j <= i])

HeldQty(b, code) ==
    IF IsNone(SnapshotRow(b, code)) THEN 0 ELSE StrOr(Val(SnapshotRow(b, code)).hldg_qty, 0)
SellableQty(b, code) ==
    IF IsNone(SnapshotRow(b, code)) THEN 0
    ELSE StrOr(Val(SnapshotRow(b, code)).ord_psbl_qty, 0)
EvalAmount(b, code) ==
    IF IsNone(SnapshotRow(b, code)) THEN 0 ELSE StrOr(Val(SnapshotRow(b, code)).evlu_amt, 0)
Quote(b, code) ==
    IF IsNone(SnapshotRow(b, code)) THEN 0 ELSE StrOr(Val(SnapshotRow(b, code)).prpr, 0)

RECURSIVE TotalEval(_)
TotalEval(rows) ==
    IF rows = <<>> THEN 0 ELSE StrOr(Head(rows).evlu_amt, 0) + TotalEval(Tail(rows))
TotalValue(b) == TotalEval(b.output1) + CashOf(b)

\* Today's OK BUY amount of one instrument in the log.
RECURSIVE SpentOn(_, _)
SpentOn(log, code) ==
    IF log = <<>> THEN 0
    ELSE LET o == Head(log)
         IN  (IF o.created_today /\ o.side = "BUY" /\ o.status = "OK"
                 /\ o.stock_code = code
              THEN OrElse(o.order_amount, 0) ELSE 0)
             + SpentOn(Tail(log), code)

\* The derivable price: the quote if positive, else the
\* average cost eval/held; as a fraction n/d, None when there is none.
DerivablePrice(b, code) ==
    IF Quote(b, code) > 0 THEN Some([n |-> Quote(b, code), d |-> 1])
    ELSE IF HeldQty(b, code) > 0 /\ EvalAmount(b, code) > 0
         THEN Some([n |-> EvalAmount(b, code), d |-> HeldQty(b, code)])
         ELSE None

\* Projected instrument value over projected total value exceeds pct percent.
WeightExceeds(b, code, quantity, pct) ==
    LET p == Val(DerivablePrice(b, code))
        stock == EvalAmount(b, code) * p.d + p.n * quantity
        total == (TotalValue(b) - EvalAmount(b, code)) * p.d + stock
    IN  100 * stock > pct * total

\* The limits in force for the instrument of the last request.
LastLimits == ResolveLimits(settings, last.stock_code)
GateBuy == last.entry = "gate" /\ last.side = "BUY"

\* The three BUY caps, each as the documentation words it (the daily cap
\* estimates the new amount at the last known price, so it needs one).
DailyCapViolated ==
    /\ LastLimits.max_daily_buy_amount > 0
    /\ Quote(last.bal, last.stock_code) > 0
    /\ SpentOn(orders, last.stock_code)
          + last.quantity * Quote(last.bal, last.stock_code)
       > LastLimits.max_daily_buy_amount
PositionCapViolated ==
    HeldQty(last.bal, last.stock_code) + last.quantity > LastLimits.max_shares
WeightCapViolated ==
    /\ TotalValue(last.bal) > 0
    /\ ~IsNone(DerivablePrice(last.bal, last.stock_code))
    /\ WeightExceeds(last.bal, last.stock_code, last.quantity,
                     LastLimits.max_weight_pct)

\* The order log as the last request found it.
PriorOrders == SubSeq(orders, 1, Len(orders) - last.rows_added)
\* The broker's fills as the last request found them.
PriorFills == IF last.accepted THEN SubSeq(fills, 1, Len(fills) - 1) ELSE fills

----------------------------------------------------------------------------
\* C1: every order attempt of /orders/market or /trade/* that passed the gate
\* and was sent to the broker leaves exactly one TradeOrder row, with status
\* OK when the broker accepted it and ERROR when the broker call failed
\* (audit-persistence faults aside).
C1_OneRecordPerAttempt ==
    (last.entry \in ApiEntries /\ last.broker_called /\ last.audit_fault = "none")
        => /\ last.rows_added = 1
           /\ orders # <<>>
           /\ orders[Len(orders)].status = (IF last.accepted THEN "OK" ELSE "ERROR")

----------------------------------------------------------------------------
\* C2: the broker order call is made only for a request that check_risk_limit
\* passes on the snapshot, settings and log it was given; a request the gate
\* rejects ends with a descriptive rejection (HTTP 400 on the API), without a
\* broker order call and without a TradeOrder row, on all three entry points.
C2_State ==
    /\ last.broker_called =>
          check_risk_limit(last.bal, settings, PriorOrders, last.stock_code,
                           last.side, last.quantity).outcome = "PASS"
    /\ last.gate.outcome = "REJECT" =>
          /\ ~last.broker_called
          /\ ~last.accepted
          /\ last.rows_added = 0
          /\ last.gate.reason \in {"daily", "position", "weight", "sellable"}
          /\ last.entry \in ApiEntries => last.http = 400

C2_Step ==
    (nreq' # nreq /\ last'.gate.outcome = "REJECT")
        => (fills' = fills /\ orders' = orders /\ held' = held /\ cash' = cash)

C2_GateBeforeBroker == []C2_State /\ [][C2_Step]_vars

\* The auto-trader's BUY is rejected by the gate after an earlier order went through.
C2_Witness ==
    /\ last.entry = "hourly"
    /\ last.side = "BUY"
    /\ last.gate.outcome = "REJECT"
    /\ fills # <<>>

----------------------------------------------------------------------------
\* The limits the documentation promises: the active row of the instrument,
\* else the active "ALL" row, else the defaults (a null field is a default).
C3_ExpectedLimits(table, code) ==
    LET own == {r \in table : r.active /\ r.stock_code = code}
        all == {r \in table : r.active /\ r.stock_code = ALL}
        pick == IF own # {} THEN own ELSE all
        row == Val(pick)
    IN  IF pick = {}
        THEN [max_shares |-> DEFAULT_MAX_POSITION_SHARES,
              max_weight_pct |-> DEFAULT_MAX_WEIGHT_PCT,
              max_daily_buy_amount |-> DEFAULT_MAX_DAILY_BUY_AMOUNT]
        ELSE [max_shares |-> StrOr(row.max_position_shares, DEFAULT_MAX_POSITION_SHARES),
              max_weight_pct |-> StrOr(row.max_weight_pct, DEFAULT_MAX_WEIGHT_PCT),
              max_daily_buy_amount |->
                  StrOr(row.max_daily_buy_amount, DEFAULT_MAX_DAILY_BUY_AMOUNT)]

\* C3: check_risk_limit applies the instrument's own active row even when an
\* active "ALL" row exists, else the "ALL" row, else the defaults, for every
\* instrument code.
C3_OwnRowOverridesAll ==
    last.entry = "gate" => LastLimits = C3_ExpectedLimits(settings, last.stock_code)

----------------------------------------------------------------------------
\* C4: a BUY the daily cap does not reject is rejected by the position cap
\* exactly when held + requested > max_position_shares, and the rejection
\* cites that cap.
C4_PositionCapExact ==
    (GateBuy /\ last.gate.reason # "daily")
        => /\ (last.gate.reason = "position")
                <=> (HeldQty(last.bal, last.stock_code) + last.quantity
                        > LastLimits.max_shares)
           /\ last.gate.reason = "position"
                => /\ last.gate.outcome = "REJECT"
                   /\ last.gate.limit = LastLimits.max_shares

\* The example: cap 10, 8 held, BUY 3 is rejected citing 10.
C4_Witness ==
    /\ GateBuy
    /\ settings = {Row("005930", Some(10), None, None, TRUE)}
    /\ last.stock_code = "005930"
    /\ HeldQty(last.bal, "005930") = 8
    /\ last.quantity = 3
    /\ last.gate = Reject("position", 10, 8)

----------------------------------------------------------------------------
\* C5: with a positive daily cap and a known price, a BUY of X is rejected by
\* the daily cap exactly when today's OK BUY amount of X plus quantity times
\* the last price of X exceeds the cap; rows of other instruments do not count.
C5_DailyCapPerInstrument ==
    (GateBuy /\ LastLimits.max_daily_buy_amount > 0
             /\ Quote(last.bal, last.stock_code) > 0)
        => ((last.gate.reason = "daily")
                <=> (SpentOn(orders, last.stock_code)
                        + last.quantity * Quote(last.bal, last.stock_code)
                     > LastLimits.max_daily_buy_amount))

----------------------------------------------------------------------------
\* C6: for a BUY the daily cap is checked first, then the position cap, then
\* the weight cap, and the first violated one gives the rejection: daily and
\* position both violated cites the daily cap, position and weight both
\* violated cites the position cap.
C6_FirstFailureWins ==
    GateBuy =>
        /\ DailyCapViolated => last.gate.reason = "daily"
        /\ (PositionCapViolated /\ last.gate.reason # "daily")
              => last.gate.reason = "position"
        /\ (WeightCapViolated /\ last.gate.reason \notin {"daily", "position"})
              => last.gate.reason = "weight"
        /\ last.gate.reason = "position" => ~DailyCapViolated
        /\ last.gate.reason = "weight" => (~DailyCapViolated /\ ~PositionCapViolated)
        /\ last.gate.reason \in {"daily", "position", "weight"}
              <=> last.gate.outcome = "REJECT"

\* A BUY over the daily cap and over the position cap: the daily cap is cited.
C6_Witness ==
    /\ GateBuy
    /\ DailyCapViolated
    /\ PositionCapViolated
    /\ last.gate.outcome = "REJECT"
    /\ last.gate.reason = "daily"

----------------------------------------------------------------------------
\* C7: with a positive daily cap and a fixed BUY (same instrument, same
\* quantity, a positive price) repeated through the API order path, every
\* accepted order filled and logged, a repetition passes the gate only while
\* the money really spent on it today plus the new order stays within the cap.
C7_RejectedBeforeBreach ==
    (/\ last.entry \in ApiEntries
     /\ last.side = "BUY"
     /\ last.gate.outcome = "PASS"
     /\ LastLimits.max_daily_buy_amount > 0
     /\ Quote(last.bal, last.stock_code) > 0
     /\ Len(PriorOrders) = Len(PriorFills)
     /\ \A i \in 1..Len(PriorFills) :
            /\ PriorFills[i].side = "BUY"
            /\ PriorFills[i].stock_code = last.stock_code
            /\ PriorFills[i].quantity = last.quantity)
        => last.spent_before + last.quantity * Quote(last.bal, last.stock_code)
              <= LastLimits.max_daily_buy_amount

----------------------------------------------------------------------------
\* C8 as claimed: a BUY past the daily and position caps is rejected by the
\* weight cap exactly when a price is derivable and the projected weight
\* exceeds max_weight_pct, and passes otherwise.
C8_WeightCapAsClaimed ==
    (GateBuy /\ last.gate.reason \notin {"daily", "position"})
        => /\ (last.gate.reason = "weight")
                <=> /\ ~IsNone(DerivablePrice(last.bal, last.stock_code))
                    /\ WeightExceeds(last.bal, last.stock_code, last.quantity,
                                        LastLimits.max_weight_pct)
           /\ last.gate.reason # "weight" => last.gate = Pass

\* C8 amended: ... exactly when the snapshot's total value (evaluations plus
\* cash) is positive, a price is derivable and the projected weight exceeds
\* max_weight_pct; otherwise the weight check is skipped and the BUY passes.
C8_WeightCapExact ==
    (GateBuy /\ last.gate.reason \notin {"daily", "position"})
        => /\ (last.gate.reason = "weight")
                <=> /\ TotalValue(last.bal) > 0
                    /\ ~IsNone(DerivablePrice(last.bal, last.stock_code))
                    /\ WeightExceeds(last.bal, last.stock_code, last.quantity,
                                        LastLimits.max_weight_pct)
           /\ last.gate.reason = "weight" => last.gate.outcome = "REJECT"
           /\ last.gate.reason # "weight" => last.gate = Pass

\* A BUY rejected by the weight cap on the average cost (the row has no quote).
C8_Witness ==
    /\ GateBuy
    /\ Quote(last.bal, last.stock_code) = 0
    /\ HeldQty(last.bal, last.stock_code) > 0
    /\ last.gate.outcome = "REJECT"
    /\ last.gate.reason = "weight"

----------------------------------------------------------------------------
\* C9: a SELL is rejected exactly when the quantity exceeds the sellable
\* quantity of the instrument in the snapshot (0 when it has no row),
\* whatever the risk settings and the order log hold.
C9_SellBySellableOnly ==
    (last.entry = "gate" /\ last.side = "SELL")
        => last.gate =
              (IF last.quantity > SellableQty(last.bal, last.stock_code)
               THEN Reject("sellable", SellableQty(last.bal, last.stock_code),
                           SellableQty(last.bal, last.stock_code))
               ELSE Pass)

\* A SELL of one share held but not sellable is rejected, with a table that
\* caps the position and the daily amount and a log with a BUY of today.
C9_Witness ==
    /\ last.entry = "gate"
    /\ last.side = "SELL"
    /\ last.quantity = 1
    /\ HeldQty(last.bal, last.stock_code) = 1
    /\ SellableQty(last.bal, last.stock_code) = 0
    /\ last.gate.outcome = "REJECT"
    /\ LastLimits.max_daily_buy_amount > 0
    /\ orders # <<>>

----------------------------------------------------------------------------
\* C10: when the broker accepted the order and writing the TradeOrder row
\* fails (getting the session, add or commit), the caller still gets the
\* broker's answer with HTTP 200 and the log has no partial row.
C10_AuditFailureSwallowed ==
    (last.entry \in ApiEntries /\ last.accepted /\ last.audit_fault # "none")
        => /\ last.http = 200
           /\ last.response = "broker_js"
           /\ last.rows_added = 0

----------------------------------------------------------------------------
\* C11: a /trade/buy or /trade/sell request orders floor(amount / close)
\* shares, close being the latest known close; with no price row, a close
\* that is not positive or a quantity of 0 it ends in an error before the
\* risk gate is consulted, without a broker call and without a TradeOrder row.
C11_NoQuantity ==
    \/ IsNone(last.close)
    \/ Val(last.close) <= 0
    \/ last.amount < Val(last.close)

C11_State ==
    last.entry = "trade" =>
        IF C11_NoQuantity
        THEN /\ last.http = 400
             /\ last.response = "error"
             /\ last.gate = NotRun
             /\ last.bal = NoBalance
             /\ ~last.broker_called
             /\ last.rows_added = 0
        ELSE /\ last.quantity >= 1
             /\ last.quantity * Val(last.close) <= last.amount
             /\ last.amount < (last.quantity + 1) * Val(last.close)

C11_Step ==
    (nreq' # nreq /\ last'.entry = "trade"
        /\ (IsNone(last'.close) \/ Val(last'.close) <= 0
               \/ last'.amount < Val(last'.close)))
        => (fills' = fills /\ orders' = orders /\ held' = held /\ cash' = cash)

C11_AmountOrders == []C11_State /\ [][C11_Step]_vars

\* An amount below the close of one share is refused.
C11_Witness ==
    /\ last.entry = "trade"
    /\ ~IsNone(last.close)
    /\ Val(last.close) > 0
    /\ last.amount > 0
    /\ last.amount < Val(last.close)
    /\ last.http = 400

----------------------------------------------------------------------------
\* C12: the balance read of the risk gate and the order submission are not
\* atomic.  Every submitted BUY passed the position cap on the balance it
\* had read, and a fill takes the holding over max_position_shares only when
\* that balance was stale by then; two concurrent BUYs of one instrument can
\* both read the same balance, both pass, both be filled and leave more
\* shares held than the cap (the witness).
C12_CheckThenAct ==
    \A t \in DOMAIN threads :
        LET th == threads[t]
            cap == ResolveLimits(settings, th.stock_code).max_shares
        IN  /\ th.pc \in {"submit", "audit"} \/ th.filled
                => /\ th.gate = Pass
                   /\ HeldQty(th.bal, th.stock_code) + th.quantity <= cap
            /\ (th.filled /\ th.held_at_fill + th.quantity > cap)
                => HeldQty(th.bal, th.stock_code) < th.held_at_fill

\* Both requests read the same balance, both passed, both were filled, and
\* the shares held exceed the cap.
C12_Witness ==
    /\ threads # <<>>
    /\ \A t \in DOMAIN threads : threads[t].filled /\ threads[t].gate = Pass
    /\ threads[1].bal = threads[2].bal
    /\ held["005930"] > ResolveLimits(settings, "005930").max_shares

----------------------------------------------------------------------------
\* The observation that shows bars from..from+window_size-1 with the two
\* extra columns position and cumulative return (numerator over equity_start).
ObsShows(obs, e, from, position, cum_return) ==
    /\ ~IsNone(obs)
    /\ Len(Val(obs)) = e.config.window_size
    /\ \A r \in 1..e.config.window_size :
          LET row == Val(obs)[r]
          IN  /\ Len(row) = NFeatures + 2
              /\ SubSeq(row, 1, NFeatures) = FeatureRow(e.prices, from + r - 1)
              /\ row[NFeatures + 1] = position
              /\ row[NFeatures + 2] = cum_return

\* C13: reset, in a fresh, a running or a terminated environment, sets
\* position 0, cash = equity = equity_start = initial_cash and cursor =
\* window_size, returns the first observation, and leaves a state that is a
\* function of the configuration and the data alone.
C13_ResetRestores ==
    out.op = "reset" =>
        /\ env.position = 0
        /\ env.cash = env.config.initial_cash
        /\ env.equity = env.config.initial_cash
        /\ env.equity_start = env.config.initial_cash
        /\ env.current_step = env.config.window_size
        /\ env = [Construct(env.config, env.prices) EXCEPT
                     !.current_step = env.config.window_size]
        /\ out.raised = "none"
        /\ ObsShows(out.obs, env, 0, 0, Frac(0, env.config.initial_cash))

\* A reset of a terminated episode whose equity and position had moved.
C13_Witness ==
    /\ out.op = "reset"
    /\ out.phase_before = "TERMINATED"
    /\ out.before.equity # env.config.initial_cash
    /\ out.before.position # 0
    /\ out.before.current_step > env.config.window_size

----------------------------------------------------------------------------
\* A step that returned, made after a reset.
StepDone == out.op = "step" /\ out.raised = "none" /\ out.phase_before # "INITIALIZED"

\* What C14 names, read off the environment as the step found it:
\* t, the prices at t-1 and t (0-based), the clipped target, the return.
C14_t == out.before.current_step
C14_prev_price == out.before.prices[C14_t]
C14_curr_price == out.before.prices[C14_t + 1]
C14_target ==
    IF out.raw > out.before.config.max_position THEN out.before.config.max_position
    ELSE IF out.raw < -out.before.config.max_position
         THEN -out.before.config.max_position
         ELSE out.raw
C14_return ==
    IF C14_prev_price <= 0 THEN Frac(0, 1)
    ELSE Frac(C14_curr_price - C14_prev_price, C14_prev_price)

\* (equity_prev + equity_prev*target*price_return - trade_cost) * den, with
\* trade_cost = equity_prev * |target - position_prev| * transaction_cost.
C14_den == PosDen * TcDen * C14_return.d
C14_unfloored_times_den ==
    out.before.equity * C14_den
    + out.before.equity * C14_target * C14_return.n * TcDen
    - out.before.equity * Abs(C14_target - out.before.position)
         * out.before.config.transaction_cost * C14_return.d

\* C14: one step at cursor t clips the action to +-max_position, charges
\* equity_prev * |target - position_prev| * transaction_cost on the position
\* held before the step, applies target * price_return of bar t over bar t-1
\* (0 when price[t-1] <= 0), floors the equity at EPS, rewards
\* reward_scale * (equity_new - equity_prev) / max(equity_prev, EPS), and
\* sets position := target, cursor := t + 1.
C14_StepComputes ==
    StepDone =>
        /\ env.position = C14_target
        /\ env.current_step = C14_t + 1
        /\ env.equity * C14_den = Max(C14_unfloored_times_den, EPS * C14_den)
        /\ out.price_return = C14_return
        /\ out.reward =
              Frac(out.before.config.reward_scale * (env.equity - out.before.equity),
                   Max(out.before.equity, EPS))

\* A step that changes a non-zero position at a cost, over a price move,
\* above the floor.
C14_Witness ==
    /\ StepDone
    /\ out.before.position # 0
    /\ env.position # out.before.position
    /\ out.before.config.transaction_cost > 0
    /\ C14_return.n # 0
    /\ env.equity > EPS
    /\ env.equity # out.before.equity

----------------------------------------------------------------------------
\* Steps from reset to the end of an episode: n_bars - 1 - window_size.
C15_EpisodeLength == env.n_steps - 1 - env.config.window_size

\* C15: after reset a step reports terminated exactly when the cursor after
\* it is >= n_bars - 1.  A step of a running episode never fails and moves
\* the cursor by one from window_size, so the episode is TERMINATED after
\* exactly n_bars - 1 - window_size steps, whatever the actions, and no
\* earlier step reports terminated.
C15_TerminatesOnTime ==
    /\ (out.op = "step" /\ out.phase_before = "RUNNING") => out.raised = "none"
    /\ StepDone =>
          /\ out.terminated <=> env.current_step >= env.n_steps - 1
          /\ env.current_step = env.config.window_size + out.steps
          /\ out.terminated <=> out.steps >= C15_EpisodeLength
          /\ out.phase = "TERMINATED" <=> out.steps >= C15_EpisodeLength
    /\ (out.op = "reset") => (out.phase = "RUNNING" /\ C15_EpisodeLength >= 1)

\* The second step of an episode of two ends it, with an action that is not 0.
C15_Witness ==
    /\ StepDone
    /\ out.phase_before = "RUNNING"
    /\ out.steps = 2
    /\ C15_EpisodeLength = 2
    /\ out.terminated
    /\ out.raw # 0

----------------------------------------------------------------------------
\* C16: once reset has been called, whatever steps follow, with any actions
\* and any prices (a loss larger than the whole equity included), equity is
\* at least EPS (initial_cash being at least EPS).
C16_EquityFloor ==
    PhaseOf(out) # "INITIALIZED" =>
        /\ env.equity >= EPS
        /\ env.equity > 0

\* A step whose loss exceeded the whole equity left the equity at EPS.
C16_Witness ==
    /\ StepDone
    /\ out.before.equity > EPS
    /\ C14_unfloored_times_den < 0
    /\ env.equity = EPS

----------------------------------------------------------------------------
\* C17: once reset has been called, for any raw action and any configured
\* max_position, the position ratio lies in [-1, 1] (PosDen halves).
C17_PositionInUnitRange ==
    PhaseOf(out) # "INITIALIZED" =>
        (-PosDen <= env.position /\ env.position <= PosDen)

----------------------------------------------------------------------------
\* C18: with transaction_cost 0 and action 0 at every step since reset,
\* equity is initial_cash after every step and every reward is 0, whatever
\* the prices.
C18_FlatIsConserved ==
    (StepDone /\ out.zero_run /\ env.config.transaction_cost = 0) =>
        /\ env.equity = env.config.initial_cash
        /\ out.reward.n = 0
        /\ out.reward.d > 0
        /\ env.position = 0

\* Two steps with action 0 and no cost over a price that moved.
C18_Witness ==
    /\ StepDone
    /\ out.zero_run
    /\ env.config.transaction_cost = 0
    /\ out.steps >= 2
    /\ C14_return.n # 0
    /\ env.equity = env.config.initial_cash

----------------------------------------------------------------------------
\* C19: the observation of reset and of every step, the cursor being t after
\* the call, has window_size rows of width n_features + 2; row r is the
\* feature vector of bar t - window_size + r - 1, so the bars shown are
\* t - window_size .. t - 1 in order and never bar t or a later one; the
\* last two columns are the same in every row, the position ratio and
\* equity / equity_start - 1.
C19_ObservationWindow ==
    (out.op \in {"reset", "step"} /\ out.raised = "none"
        /\ out.phase # "INITIALIZED")
        => /\ ObsShows(out.obs, env, env.current_step - env.config.window_size,
                       env.position,
                       Frac(env.equity - env.equity_start, env.equity_start))
           /\ \A r \in 1..Len(Val(out.obs)) :
                 /\ Val(out.obs)[r][NFeatures] < 10 + env.current_step
                 /\ r > 1 => Val(out.obs)[r][NFeatures]
                                = Val(out.obs)[r - 1][NFeatures] + 1

\* The observation of a step that left a position and a changed equity.
C19_Witness ==
    /\ StepDone
    /\ env.current_step > env.config.window_size
    /\ env.position # 0
    /\ env.equity # env.equity_start
    /\ ~IsNone(out.obs)
    /\ Val(out.obs)[1][NFeatures + 1] = env.position

----------------------------------------------------------------------------
\* The row of a CSV file with exactly k rows of an earlier datetime.
C20_RowOfRank(csv, k) ==
    CHOOSE i \in 1..Len(csv) :
        Cardinality({j \in 1..Len(csv) : csv[j].datetime < csv[i].datetime}) = k

\* C20: build_latest_observation shows the window_size most recent rows of
\* the CSV in ascending date order, with a position and a cumulative-return
\* column that are 0; with fewer rows than window_size (or no file) it
\* raises and gives no observation, and run_hourly_trading then makes no
\* decision, asks no risk gate and places no order for that stock.
C20_State ==
    (last.entry = "hourly" /\ last.skipped # "no_model") =>
        IF IsNone(last.csv) \/ Len(Val(last.csv)) < HourlyWindow
        THEN /\ last.skipped = "no_observation"
             /\ IsNone(last.obs)
             /\ last.side = "none"
             /\ last.gate = NotRun
             /\ ~last.broker_called
             /\ ~last.accepted
        ELSE /\ last.skipped = "none"
             /\ ~IsNone(last.obs)
             /\ Len(Val(last.obs)) = HourlyWindow
             /\ \A r \in 1..HourlyWindow :
                   LET csv == Val(last.csv)
                       i == C20_RowOfRank(csv, Len(csv) - HourlyWindow + r - 1)
                   IN  Val(last.obs)[r] = <<csv[i].feature, 0, 0>>

C20_Step ==
    (nreq' # nreq /\ last'.entry = "hourly" /\ last'.skipped = "no_observation")
        => (fills' = fills /\ orders' = orders /\ held' = held /\ cash' = cash)

C20_LatestObservation == []C20_State /\ [][C20_Step]_vars

\* A CSV one row short of the window: no observation, the stock is skipped.
C20_Witness ==
    /\ last.entry = "hourly"
    /\ ~IsNone(last.csv)
    /\ Len(Val(last.csv)) = HourlyWindow - 1
    /\ last.skipped = "no_observation"
    /\ IsNone(last.obs)

(***************************************************************************)
(* C21.  The performance summary.                                          *)
(***************************************************************************)
\* The snapshot series a request covers: the rows of the last `days` days.
PerfSeries ==
    SelectSeq(snapshots, LAMBDA r : r.created_at >= out.now - out.days)
ValueAt(series, i) ==
    IF IsNone(series[i].total_value) THEN 0 ELSE Val(series[i].total_value)
PnlAt(series, i) ==
    IF IsNone(series[i].total_pnl) THEN 0 ELSE Val(series[i].total_pnl)
PeakAt(series, i) ==
    CHOOSE p \in {ValueAt(series, j) : j \in 1..i} :
        \A j \in 1..i : ValueAt(series, j) <= p
RECURSIVE PnlTotal(_, _)
PnlTotal(series, i) ==
    IF i = 0 THEN 0 ELSE PnlAt(series, i) + PnlTotal(series, i - 1)

\* C21: for a non-empty snapshot series get_performance returns the first
\* and the last total_value, the return (end - start)/start * 100 (0 when
\* start is 0), the largest drawdown (running_peak - value)/running_peak * 100
\* over the series and the sum of total_pnl; for an empty series every
\* summary field is 0, and no error is raised.
C21_PerformanceSummary ==
    out.op = "get_performance" =>
        LET w == PerfSeries
            n == Len(w)
            s == out.response.summary
            dd == s.max_drawdown_pct
            measured == {i \in 1..n : PeakAt(w, i) > 0}
        IN  /\ out.http = 200
            /\ IF n = 0
               THEN \A f \in DOMAIN s : s[f] = Num(0)
               ELSE /\ s.start_value = Num(ValueAt(w, 1))
                    /\ s.end_value = Num(ValueAt(w, n))
                    /\ IsFinite(s.total_return_pct)
                    /\ IF ValueAt(w, 1) = 0
                       THEN s.total_return_pct = Num(0)
                       ELSE s.total_return_pct.n * ValueAt(w, 1)
                              = (ValueAt(w, n) - ValueAt(w, 1)) * 100
                                * s.total_return_pct.d
                    /\ IsFinite(dd)
                    /\ \A i \in measured :
                          (PeakAt(w, i) - ValueAt(w, i)) * 100 * dd.d
                             <= dd.n * PeakAt(w, i)
                    /\ \/ dd = Num(0)
                       \/ \E i \in measured :
                             (PeakAt(w, i) - ValueAt(w, i)) * 100 * dd.d
                                = dd.n * PeakAt(w, i)
                    /\ s.pnl_sum = Num(PnlTotal(w, n))

\* The series 100, 120, 90, 130 is summarised: return 30%, drawdown 25%.
C21_Witness ==
    /\ out.op = "get_performance"
    /\ [i \in 1..Len(PerfSeries) |-> ValueAt(PerfSeries, i)] = <<100, 120, 90, 130>>
    /\ out.response.summary.total_return_pct = Num(30)
    /\ out.response.summary.max_drawdown_pct = Num(25)
    /\ out.response.summary.pnl_sum = Num(30)

(***************************************************************************)
(* C22.  No indicator looks ahead.                                         *)
(***************************************************************************)
IsPrefix(a, b) == Len(a) <= Len(b) /\ SubSeq(b, 1, Len(a)) = a

\* C22: the value of every indicator at every index i of a bar series is
\* the value at i on any extension of the series by later bars, and a
\* second run on the same input gives the same output.
C22_NoLookahead ==
    (out.op = "add_all_indicators" /\ ~IsNone(out.before)) =>
        LET earlier == Val(out.before)
        IN  IsPrefix(earlier.frame, out.frame) =>
                /\ DOMAIN earlier.cols = DOMAIN out.cols
                /\ \A c \in DOMAIN out.cols : \A i \in 1..Len(earlier.frame) :
                      out.cols[c][i] = earlier.cols[c][i]
                /\ (earlier.frame = out.frame => earlier.cols = out.cols)

\* The indicators were computed on two bars and again once two more had
\* arrived; by then every column has a defined value on the last bar but the
\* slowest one.
C22_Witness ==
    /\ out.op = "add_all_indicators"
    /\ ~IsNone(out.before)
    /\ Len(Val(out.before).frame) = 2
    /\ Len(out.frame) = 4
    /\ IsPrefix(Val(out.before).frame, out.frame)
    /\ IsFinite(out.cols.RSI[4])
    /\ IsFinite(out.cols.Stoch_K[4])
    /\ IsFinite(out.cols.MA_10[4])
    /\ out.cols.BB_Upper[4].b # Num(0)

(***************************************************************************)
(* C23.  The exponential moving average.                                   *)
(***************************************************************************)
\* The closes of the frame the indicators were computed on.
ClosesOf(frame) == [i \in 1..Len(frame) |-> frame[i].close]

\* The column is the recursion on the closes, with alpha = 2 / (span + 1),
\* seeded with the first close, every value defined.
EmaIsRecursion(col, closes, span) ==
    /\ Len(col) = Len(closes)
    /\ \A t \in 1..Len(col) : IsFinite(col[t])
    /\ col[1] = Num(closes[1])
    /\ \A t \in 2..Len(col) :
          col[t] = FAdd(col[t - 1],
                        FMul(Q(2, span + 1), FSub(Num(closes[t]), col[t - 1])))

\* The value is `hundredths`/100 to two decimals.
Approx(x, hundredths) ==
    /\ IsFinite(x)
    /\ 2 * Abs(100 * x.n - hundredths * x.d) <= x.d

C23_Columns(expected) ==
    out.op = "add_all_indicators" =>
        \A c \in DOMAIN EmaSpans :
            /\ EmaIsRecursion(out.cols[c], ClosesOf(out.frame), EmaSpans[c])
            /\ (ClosesOf(out.frame) = <<100, 102, 101, 105>> /\ EmaSpans[c] = 2) =>
                   \A t \in 1..4 : Approx(out.cols[c][t], expected[t])

\* C23 as stated: EMA(span) is the recursion EMA_0 = close_0,
\* EMA_t = EMA_(t-1) + alpha (close_t - EMA_(t-1)), alpha = 2/(span+1), no
\* warm-up correction and no null warm-up values; on the closes
\* 100, 102, 101, 105 with span 2 it is about 100, 101.33, 101.11, 103.04.
C23_EmaAsClaimed == C23_Columns(<<10000, 10133, 10111, 10304>>)

\* C23, amended: the same recursion; on the closes 100, 102, 101, 105 with
\* span 2 it is about 100, 101.33, 101.11, 103.70.
C23_EmaRecursion == C23_Columns(<<10000, 10133, 10111, 10370>>)

\* The EMA of span 2 has been computed on the closes 100, 102, 101, 105.
C23_Witness ==
    /\ out.op = "add_all_indicators"
    /\ ClosesOf(out.frame) = <<100, 102, 101, 105>>
    /\ EmaSpans.EMA_12 = 2
    /\ out.cols.EMA_12 = <<Num(100), Q(304, 3), Q(910, 9), Q(2800, 27)>>

(***************************************************************************)
(* C24.  Degenerate windows of RSI and of the Bollinger bands.             *)
(***************************************************************************)
\* The closes of the rolling window that ends at bar i, as numbers.
ClosesIn(frame, i, period) == {frame[j].close : j \in (i - period + 1)..i}
\* No close of the window is below the close before it (the first bar of a
\* frame has no move).
NoDownMove(frame, i, period) ==
    \A j \in (i - period + 1)..i : j > 1 => frame[j].close >= frame[j - 1].close
SomeUpMove(frame, i, period) ==
    \E j \in (i - period + 1)..i : j > 1 /\ frame[j].close > frame[j - 1].close

\* C24: where the rolling mean loss of a bar's window is 0, add_rsi gives
\* the undefined-value sentinel for the bar and never 100, whether the mean
\* gain is positive or 0 too; and a zero-variance Bollinger window gives the
\* sentinel for %B, not a crash.
C24_DegenerateWindows ==
    out.op = "add_all_indicators" =>
        \A i \in Window..Len(out.frame) :
            /\ NoDownMove(out.frame, i, Window) =>
                  /\ IsNaN(out.cols.RSI[i])
                  /\ out.cols.RSI[i] # Num(100)
            /\ Cardinality(ClosesIn(out.frame, i, Window)) = 1 =>
                  IsNaN(out.cols.BB_PctB[i].a)

\* What the code does with these windows: RSI is 100 when there was an up
\* move and no down move, NaN when there was no move; %B is NaN on a
\* window of equal closes.
C24_RsiCoercedTo100 ==
    out.op = "add_all_indicators" =>
        \A i \in Window..Len(out.frame) :
            /\ (NoDownMove(out.frame, i, Window) /\ SomeUpMove(out.frame, i, Window)) =>
                  out.cols.RSI[i] = Num(100)
            /\ (NoDownMove(out.frame, i, Window) /\ ~SomeUpMove(out.frame, i, Window)) =>
                  IsNaN(out.cols.RSI[i])
            /\ Cardinality(ClosesIn(out.frame, i, Window)) = 1 =>
                  IsNaN(out.cols.BB_PctB[i].a)

(***************************************************************************)
(* C30.  The cursor of the environment.                                    *)
(***************************************************************************)
\* C30: in every step call after a reset, steps after `terminated` was
\* reported included, the cursor stays within window_size .. n_bars - 1,
\* step reads the price series at no index outside 0 .. n_bars - 1, and
\* each observation emitted has exactly window_size rows.
C30_CursorInRange ==
    PhaseOf(out) \in {"RUNNING", "TERMINATED"} =>
        /\ env.current_step \in env.config.window_size..(env.n_steps - 1)
        /\ out.op = "step" =>
              /\ out.raised # "IndexError"
              /\ {out.before.current_step - 1, out.before.current_step}
                     \subseteq 0..(env.n_steps - 1)
              /\ out.raised = "none" =>
                    /\ ~IsNone(out.obs)
                    /\ Len(Val(out.obs)) = env.config.window_size

(***************************************************************************)
(* C27.  The position cap over a sequence of requests.                     *)
(***************************************************************************)
\* The net quantity the broker has filled for an instrument.
RECURSIVE NetFilled(_, _)
NetFilled(fs, code) ==
    IF fs = <<>> THEN 0
    ELSE (IF Head(fs).stock_code # code THEN 0
          ELSE IF Head(fs).side = "BUY" THEN Head(fs).quantity
          ELSE -Head(fs).quantity)
         + NetFilled(Tail(fs), code)
\* The holding before the first request.
InitialHeld(code) == held[code] - NetFilled(fills, code)

\* C27: with the requests for an instrument handled one after another, each
\* on a balance that shows all earlier fills, and the resolved
\* max_position_shares unchanged, the quantity held stays at or below the
\* cap for every sequence of BUY and SELL requests, if it started there.
C27_HeldWithinCap ==
    \A code \in NumericCodes :
        InitialHeld(code) <= ResolveLimits(settings, code).max_shares =>
            held[code] <= ResolveLimits(settings, code).max_shares

\* After a filled BUY the holding is at the cap, and a further BUY has just
\* been refused for the position cap.
C27_Witness ==
    /\ \E i \in 1..Len(fills) : fills[i].side = "BUY" /\ fills[i].stock_code = last.stock_code
    /\ last.side = "BUY"
    /\ last.gate.outcome = "REJECT"
    /\ last.gate.reason = "position"
    /\ held[last.stock_code] = ResolveLimits(settings, last.stock_code).max_shares

(***************************************************************************)
(* C28.  Every accepted BUY is on record.                                  *)
(***************************************************************************)
\* C28: a BUY the broker accepted, from /orders/market, /trade/buy or the
\* auto-trader's run_hourly_trading, leaves exactly one OK row with its
\* amount in the order log, so that a later daily-cap check counts it.
C28_AcceptedBuyRecorded ==
    (last.accepted /\ last.side = "BUY") =>
        /\ last.rows_added = 1
        /\ LET row == orders[Len(orders)]
           IN  /\ row.status = "OK"
               /\ row.side = "BUY"
               /\ row.stock_code = last.stock_code
               /\ row.quantity = last.quantity
               /\ ~IsNone(row.order_amount)
               /\ Val(row.order_amount) > 0
        /\ SpentOn(orders, last.stock_code)
              = SpentOn(PriorOrders, last.stock_code)
                + last.quantity * Price[last.stock_code]

(***************************************************************************)
(* C25.  A strategy run that exceeds the timeout.                          *)
(***************************************************************************)
\* The timeout itself: the caller gets an error, nothing submitted so far is
\* taken back, no AutoTradeRun row is written.
C25_OnTimeout ==
    (~proc.timed_out /\ proc'.timed_out) =>
        /\ proc.entry \in {"run_once", "trade_auto"}
        /\ proc'.http = 500
        /\ fills' = fills /\ held' = held /\ cash' = cash /\ orders' = orders
        /\ auto_runs' = auto_runs
\* After the timeout the run submits nothing and is not recorded.
C25_AfterTimeout ==
    proc.timed_out => (fills' = fills /\ held' = held /\ cash' = cash
                       /\ auto_runs' = auto_runs)
\* The handler of a run that did not time out returns.
C25_Completes ==
    /\ proc.pc = "running" /\ proc'.pc = "done"
    /\ proc.entry = "run_once" /\ ~proc.timed_out

\* C25 as stated: a strategy run started through run_auto_trade_once or
\* api_trade_auto that exceeds the timeout is aborted outright: the caller
\* gets an error, the run submits no further orders, the orders it had
\* submitted stay submitted, and no AutoTradeRun record is written for it;
\* a run that completes within the timeout through run_auto_trade_once
\* writes exactly one AutoTradeRun record.
C25_TimeoutAsClaimed ==
    [][/\ C25_OnTimeout
       /\ C25_AfterTimeout
       /\ C25_Completes => Len(auto_runs') = Len(auto_runs) + 1]_vars

\* C25, amended: the same for the timeout; a run that completes within the
\* timeout through run_auto_trade_once writes exactly one AutoTradeRun
\* record, with the script's return code, when the record can be persisted,
\* and none when persisting it fails.
C25_TimeoutAborts ==
    [][/\ C25_OnTimeout
       /\ C25_AfterTimeout
       /\ C25_Completes =>
             auto_runs' = IF proc'.fault = "none"
                          THEN Append(auto_runs,
                                      [returncode |-> IF proc.next > Len(Stocks)
                                                      THEN 0 ELSE 1])
                          ELSE auto_runs]_vars

\* A first run through run_auto_trade_once has completed and is recorded; a
\* second one was killed on the timeout after its first pass had an order
\* accepted, which stays, and left no record.
C25_Witness ==
    /\ proc.pc = "aborted"
    /\ proc.timed_out
    /\ proc.entry = "run_once"
    /\ proc.http = 500
    /\ proc.next = 2
    /\ proc.fills_at_end > proc.fills_at_start
    /\ Len(fills) = proc.fills_at_end
    /\ Len(auto_runs) = 1
    /\ proc.runs_at_start = 1

(***************************************************************************)
(* C26.  The frame of upsert_risk_setting.                                 *)
(***************************************************************************)
\* The row of a stock code in a table, None when there is none.
SettingOf(table, code) ==
    LET rows == {r \in table : r.stock_code = code}
    IN  IF rows = {} THEN None ELSE Some(CHOOSE r \in rows : TRUE)
\* The value of a field the body does not give: the row's previous value,
\* for a new row no limit (and the column default, active).
KeptField(before, f) ==
    IF IsNone(before) THEN (IF f = "active" THEN TRUE ELSE None)
    ELSE Val(before)[f]
OneRowPerCode(table) ==
    \A r, q \in table : r.stock_code = q.stock_code => r = q

\* Whether the body of an upsert gives a field, and the value the row has
\* for a field that is given.
IsGiven(json, f) ==
    IF f = "active" THEN json.active \in {"true", "false"} ELSE ~IsNone(json[f])
GivenValue(json, f) ==
    IF f = "active" THEN json.active = "true" ELSE json[f]

\* C26: upsert_risk_setting changes only the fields its body gives: a field
\* not given (max_position_shares, max_weight_pct, max_daily_buy_amount,
\* and active too) keeps its value, the rows of the other stock codes are
\* unchanged, and there is at most one row per stock code.
C26_OnlyGivenFields ==
  [][
    /\ OneRowPerCode(settings')
    /\ (out'.op = "upsert_risk_setting" /\ nreq' = nreq + 1 /\ out'.http = 200) =>
        LET code == out'.stock_code
            before == SettingOf(settings, code)
            after == SettingOf(settings', code)
        IN  /\ ~IsNone(after)
            /\ \A f \in {"max_position_shares", "max_weight_pct",
                         "max_daily_buy_amount", "active"} :
                  Val(after)[f] = IF IsGiven(out'.json, f)
                                  THEN GivenValue(out'.json, f)
                                  ELSE KeptField(before, f)
            /\ {r \in settings' : r.stock_code # code}
                  = {r \in settings : r.stock_code # code}
  ]_vars

(***************************************************************************)
(* C29.  The API key.                                                      *)
(***************************************************************************)
\* C29: with API_KEY configured, a request without the matching X-API-Key
\* header submits no order to the broker and changes no risk setting, on
\* /orders/market, /trade/buy, /trade/sell, /trade/auto,
\* /auto-trade/run-once and PUT /settings/risk/{stock_code}.
C29_KeyRequired ==
    /\ (last.entry \in ApiEntries /\ ~last.key_ok) => ~last.broker_called
    /\ (proc.pc # "none" /\ ~proc.key_ok) =>
          proc.fills_at_end = proc.fills_at_start
    /\ (out.op = "upsert_risk_setting" /\ ~out.key_ok) =>
          /\ out.http = 401
          /\ settings = out.before

====
